---- MODULE Spec2Model ----
(***************************************************************************)
(* A model of go-docx: the package's relationship lists, the document     *)
(* body tree with its serializer (ToXML / updateXMLData) and its token     *)
(* driven parser (loadFromXML / parseParagraph / parseTable / ...), and    *)
(* the table merge operations.                                             *)
(*                                                                         *)
(* Go strings whose characters the code inspects are sequences of          *)
(* one-character strings; a nil pointer is the empty sequence and a        *)
(* non-nil pointer a one-element sequence.  XML is a sequence of tokens    *)
(* as encoding/xml's Decoder.Token delivers them: start element, end       *)
(* element, character data.                                                *)
(***************************************************************************)
EXTENDS Integers, Sequences, FiniteSets, TLC

VARIABLES
    heap,          \* the Paragraph/Table/Section objects behind Go pointers: id -> object
    paragraphs,    \* DocumentPart.paragraphs   (ids)
    tables,        \* DocumentPart.tables       (ids)
    sections,      \* DocumentPart.sections     (ids)
    bodyElements,  \* DocumentPart.bodyElements (documentElement records)
    data,          \* DocumentPart.Part.Data, as the tokens the decoder reads from it
    file,          \* word/document.xml of the file SaveAs wrote: <<>> or <<its tokens>>
    lastDoc,       \* the last document operation, whether it returned an error,
                   \* and the operations called so far
    relations,     \* Package.relations: owner URI -> list of Relationship
    parts,         \* Package.parts: the set of part names
    everIDs,       \* history: owner URI -> every ID one of its relationships ever had
    lastEnsure,    \* the last ensureRelationshipWithMode call and what it returned
    docPart,       \* the DocumentPart that MainDocumentPart returned: <<>> or <<its URI>>
    contentTypes,  \* Package.contentTypes: the part names that have an Override
    archive,       \* what Package.SaveAs wrote last: <<>> or <<its entries>>
    tbl,           \* a Table built by NewTable, the receiver of the merge operations
    lastMerge,     \* the last merge call: its arguments, its result, the rows before it
    docBody,       \* the paragraphs of a DocumentPart that has headers and pictures
    docSection,    \* its section, with headerRefs: header type -> relationship ID
    hdrTree,       \* the Header of the section: <<>> or <<[uri, paragraphs]>>
    hdrData,       \* the Data of the header's part
    drawingCounter, \* DocumentPart.drawingCounter
    loose,         \* a Run, a Paragraph and a Section that have no owner
    saved,         \* what Document.SaveAs wrote last: <<>> or <<its entries>>
    lastHdr        \* the last call on this document and what it returned

vars == <<heap, paragraphs, tables, sections, bodyElements, data, file, lastDoc,
          relations, parts, everIDs, lastEnsure, docPart, contentTypes, archive,
          tbl, lastMerge,
          docBody, docSection, hdrTree, hdrData, drawingCounter, loose, saved, lastHdr>>

docVars == <<heap, paragraphs, tables, sections, bodyElements, data, file, lastDoc>>
relVars == <<relations, parts, everIDs, lastEnsure, docPart, contentTypes, archive>>
tblVars == <<tbl, lastMerge>>
hdrVars == <<docBody, docSection, hdrTree, hdrData, drawingCounter, loose, saved, lastHdr>>

----------------------------------------------------------------------------
(* Bounds of the model *)

MaxRows == 2        \* rows of a table built by NewTable
MaxCols == 2        \* columns of a table built by NewTable
MaxMerges == 2      \* calls on one table
MaxTblRows == 3     \* rows of a table that rows are added to
MaxEnsure == 3      \* relationship-creating calls on one package
MaxBody == 4        \* body elements of one document
MaxSteps == 3       \* document operations in one run
MaxRuns == 2        \* runs of one paragraph
NegDims == 1        \* how far below zero the row and column counts asked of a table go

----------------------------------------------------------------------------
(* strconv.Atoi and fmt's %d on decimal strings *)

Digits == <<"0", "1", "2", "3", "4", "5", "6", "7", "8", "9">>

IsDigit(c) == \E i \in 1..10 : Digits[i] = c

DigitVal(c) == (CHOOSE i \in 1..10 : Digits[i] = c) - 1

RECURSIVE NatToStr(_)
NatToStr(n) == IF n < 10 THEN <<Digits[n + 1]>>
               ELSE NatToStr(n \div 10) \o <<Digits[(n % 10) + 1]>>

\* fmt.Sprintf("%d", n)
Itoa(n) == IF n < 0 THEN <<"-">> \o NatToStr(0 - n) ELSE NatToStr(n)

RECURSIVE DigitsVal(_, _)
DigitsVal(s, acc) == IF s = <<>> THEN acc
                     ELSE DigitsVal(Tail(s), acc * 10 + DigitVal(Head(s)))

AtoiBody(s) == IF s # <<>> /\ Head(s) \in {"+", "-"} THEN Tail(s) ELSE s

\* strconv.Atoi: err == nil
AtoiOk(s) == /\ AtoiBody(s) # <<>>
             /\ \A i \in 1..Len(AtoiBody(s)) : IsDigit(AtoiBody(s)[i])

\* strconv.Atoi: the value, when err == nil
AtoiVal(s) == IF Head(s) = "-" THEN 0 - DigitsVal(AtoiBody(s), 0)
              ELSE DigitsVal(AtoiBody(s), 0)

\* "x := e" followed by body: Only({body : x \in {e}}) is body with the value of
\* e for x, and e is computed once
Only(S) == CHOOSE x \in S : TRUE

Str(n) == Itoa(n)

----------------------------------------------------------------------------
(* Paragraph, Run (paragraph.go) *)

BreakTypePage == <<"p", "a", "g", "e">>
BreakTypeColumn == <<"c", "o", "l", "u", "m", "n">>
BreakTypeText == <<"t", "e", "x", "t", "W", "r", "a", "p", "p", "i", "n", "g">>

WDUnderlineNone == <<"n", "o", "n", "e">>
WDUnderlineSingle == <<"s", "i", "n", "g", "l", "e">>
WDColorIndexAuto == <<"a", "u", "t", "o">>
ColorAuto == <<"a", "u", "t", "o">>
FontCalibri == <<"C", "a", "l", "i", "b", "r", "i">>

\* A mutant of NewRun: the size of a new run is 12pt.
NewRunSize24(text) ==
    [text |-> text, bold |-> FALSE, italic |-> FALSE, strike |-> FALSE,
     doubleStrike |-> FALSE, smallCaps |-> FALSE, allCaps |-> FALSE,
     shadow |-> FALSE, outline |-> FALSE, emboss |-> FALSE, imprint |-> FALSE,
     underline |-> WDUnderlineNone, size |-> 24, color |-> ColorAuto,
     font |-> FontCalibri, highlight |-> WDColorIndexAuto,
     charSpacing |-> <<>>, kern |-> <<>>, baselineShift |-> <<>>,
     hyperlinkURL |-> <<>>, hyperlinkAnchor |-> <<>>,
     hasBreak |-> FALSE, breakType |-> <<>>]

\* NewRun(text); the fields that NewRun does not name have their zero values.
\* charSpacing, kern and baselineShift are *int: <<>> for nil, <<n>> otherwise
NewRun(text) ==
    [text |-> text, bold |-> FALSE, italic |-> FALSE, strike |-> FALSE,
     doubleStrike |-> FALSE, smallCaps |-> FALSE, allCaps |-> FALSE,
     shadow |-> FALSE, outline |-> FALSE, emboss |-> FALSE, imprint |-> FALSE,
     underline |-> WDUnderlineNone, size |-> 22, color |-> ColorAuto,
     font |-> FontCalibri, highlight |-> WDColorIndexAuto,
     charSpacing |-> <<>>, kern |-> <<>>, baselineShift |-> <<>>,
     hyperlinkURL |-> <<>>, hyperlinkAnchor |-> <<>>,
     hasBreak |-> FALSE, breakType |-> <<>>]

\* Run.SetHyperlink
SetHyperlink(run, url) == [run EXCEPT !.hyperlinkURL = url, !.hyperlinkAnchor = <<>>]

\* Run.SetHyperlinkAnchor
SetHyperlinkAnchor(run, anchor) ==
    [run EXCEPT !.hyperlinkAnchor = anchor, !.hyperlinkURL = <<>>]

\* Run.HasHyperlink
HasHyperlink(run) == run.hyperlinkURL # <<>> \/ run.hyperlinkAnchor # <<>>

\* section is Paragraph.section: <<>> for nil, <<s>> for a pointer to s; the
\* keep settings are *bool: <<>> for nil, <<b>> for a pointer to b
NewParagraph ==
    [runs |-> <<>>, style |-> <<>>, section |-> <<>>,
     keepWithNext |-> <<>>, keepLines |-> <<>>, pageBreakBefore |-> <<>>,
     widowControl |-> <<>>]

\* Paragraph.AddRun
ParagraphAddRun(p, text) == [p EXCEPT !.runs = Append(@, NewRun(text))]

RECURSIVE ConcatAll(_)
ConcatAll(ss) == IF ss = <<>> THEN <<>> ELSE Head(ss) \o ConcatAll(Tail(ss))

RECURSIVE SumSeq(_)
SumSeq(ns) == IF ns = <<>> THEN 0 ELSE Head(ns) + SumSeq(Tail(ns))

\* Paragraph.Text
ParagraphText(p) == ConcatAll([i \in 1..Len(p.runs) |-> p.runs[i].text])

----------------------------------------------------------------------------
(* Table, TableRow, TableCell (table.go) *)

DefaultCellWidth == 1440

TableVerticalMergeNone == ""
TableVerticalMergeRestart == "restart"
TableVerticalMergeContinue == "continue"

NewCell(width) ==
    [paragraphs |-> <<NewParagraph>>, width |-> width, gridSpan |-> 0,
     verticalMerge |-> TableVerticalMergeNone]

\* NewTable(rows, cols)
NewTable(rows, cols) ==
    [rows |-> [i \in 1..rows |-> [j \in 1..cols |-> NewCell(DefaultCellWidth)]],
     gridColumns |-> cols,
     grid |-> [j \in 1..cols |-> DefaultCellWidth]]

\* TableCell.GridSpan
GridSpan(cell) == IF cell.gridSpan <= 1 THEN 1 ELSE cell.gridSpan

\* Table.ensureGridLength(cols): the grid is padded with 1440 up to cols entries
ensureGridLength(t, cols) ==
    IF cols <= 0 \/ Len(t.grid) >= cols THEN t
    ELSE [t EXCEPT !.grid = t.grid \o [i \in 1..(cols - Len(t.grid)) |-> DefaultCellWidth]]

\* "if cols <= 0 { cols = len(t.grid) }; if cols <= 0 { cols = 1 }"
FallbackCols(t, cols) ==
    IF cols > 0 THEN cols ELSE IF Len(t.grid) > 0 THEN Len(t.grid) ELSE 1

\* "t.ensureGridLength(cols); if cols > t.gridColumns { t.gridColumns = cols }"
WithGridFor(t, cols) ==
    [ensureGridLength(t, cols) EXCEPT
        !.gridColumns = IF cols > t.gridColumns THEN cols ELSE t.gridColumns]

\* the row of cols fresh cells that AddRow and InsertRowAt build: the width of
\* cell i is grid[i] where that is positive, else 1440; no grid span is set
FreshRow(t, cols) ==
    [i \in 1..cols |->
        NewCell(IF i <= Len(t.grid) /\ t.grid[i] > 0 THEN t.grid[i] ELSE DefaultCellWidth)]

\* Table.AddRow(): the column count is the cell count of the last row
AddRow(t) ==
    LET cols == FallbackCols(t, IF Len(t.rows) > 0 THEN Len(t.rows[Len(t.rows)])
                                ELSE t.gridColumns)
        g == WithGridFor(t, cols)
    IN  [g EXCEPT !.rows = Append(t.rows, FreshRow(g, cols))]

\* Table.InsertRowAt(index): the index is clamped to 0..len(rows); the column
\* count is the cell count of the row before the index (of the first row at 0)
InsertRowAt(t, index) ==
    LET at == IF index < 0 THEN 0 ELSE IF index > Len(t.rows) THEN Len(t.rows) ELSE index
        t1 == IF Len(t.rows) > 0 /\ at - 1 < 0
              THEN WithGridFor(t, FallbackCols(t, t.gridColumns)) ELSE t
        refIndex == IF at - 1 < 0 THEN 0 ELSE at - 1
        cols == FallbackCols(t1, IF Len(t.rows) > 0 /\ refIndex < Len(t.rows)
                                 THEN Len(t.rows[refIndex + 1]) ELSE t1.gridColumns)
        g == WithGridFor(t1, cols)
    IN  [g EXCEPT !.rows = SubSeq(t.rows, 1, at) \o <<FreshRow(g, cols)>>
                             \o SubSeq(t.rows, at + 1, Len(t.rows))]

RECURSIVE SumWidths(_, _, _)
SumWidths(cells, from, to) ==
    IF from > to THEN 0 ELSE cells[from].width + SumWidths(cells, from + 1, to)

\* The loop and the two assignments that end Table.MergeCellsHorizontally:
\* cells start+1..end are removed, their widths added to cell start.
MergedRow(cells, start, end) ==
    [i \in 1..(Len(cells) - (end - start)) |->
        IF i < start + 1 THEN cells[i]
        ELSE IF i = start + 1
             THEN [cells[i] EXCEPT !.width = SumWidths(cells, start + 1, end + 1),
                                   !.gridSpan = end - start + 1]
             ELSE cells[i + (end - start)]]

\* A mutant of MergeCellsHorizontally: the "span <= 1" early return is missing.
MergeCellsHorizontallyNoSpanCheck(t, rowIndex, start, end) ==
    IF rowIndex < 0 \/ rowIndex >= Len(t.rows) THEN [t |-> t, err |-> TRUE]
    ELSE IF start < 0 \/ end < start THEN [t |-> t, err |-> TRUE]
    ELSE IF end >= Len(t.rows[rowIndex + 1]) THEN [t |-> t, err |-> TRUE]
    ELSE [t |-> [t EXCEPT !.rows[rowIndex + 1] = MergedRow(@, start, end)],
          err |-> FALSE]

\* Table.MergeCellsHorizontally(rowIndex, start, end); indices are Go's, from 0.
MergeCellsHorizontally(t, rowIndex, start, end) ==
    IF rowIndex < 0 \/ rowIndex >= Len(t.rows) THEN [t |-> t, err |-> TRUE]
    ELSE IF start < 0 \/ end < start THEN [t |-> t, err |-> TRUE]
    ELSE IF end >= Len(t.rows[rowIndex + 1]) THEN [t |-> t, err |-> TRUE]
    ELSE IF end - start + 1 <= 1 THEN [t |-> t, err |-> FALSE]
    ELSE [t |-> [t EXCEPT !.rows[rowIndex + 1] = MergedRow(@, start, end)],
          err |-> FALSE]

\* The body of the row loop of Table.MergeCellsVertically, from rowIndex on:
\* each row is marked as it is visited, and the loop returns the error of the
\* first row that has no such column with the rows before it already marked.
RECURSIVE MergeVLoop(_, _, _, _, _)
MergeVLoop(t, column, startRow, endRow, rowIndex) ==
    IF rowIndex > endRow THEN [t |-> t, err |-> FALSE]
    ELSE IF column >= Len(t.rows[rowIndex + 1]) THEN [t |-> t, err |-> TRUE]
    ELSE MergeVLoop(
            [t EXCEPT !.rows[rowIndex + 1][column + 1].verticalMerge =
                IF rowIndex = startRow THEN TableVerticalMergeRestart
                ELSE TableVerticalMergeContinue],
            column, startRow, endRow, rowIndex + 1)

\* A mutant of MergeCellsVertically: every row of the span is marked "restart".
RECURSIVE MergeVLoopAllRestart(_, _, _, _)
MergeVLoopAllRestart(t, column, endRow, rowIndex) ==
    IF rowIndex > endRow THEN [t |-> t, err |-> FALSE]
    ELSE IF column >= Len(t.rows[rowIndex + 1]) THEN [t |-> t, err |-> TRUE]
    ELSE MergeVLoopAllRestart(
            [t EXCEPT !.rows[rowIndex + 1][column + 1].verticalMerge =
                TableVerticalMergeRestart],
            column, endRow, rowIndex + 1)

MergeCellsVerticallyAllRestart(t, column, startRow, endRow) ==
    IF column < 0 THEN [t |-> t, err |-> TRUE]
    ELSE IF startRow < 0 \/ endRow < startRow \/ endRow >= Len(t.rows)
         THEN [t |-> t, err |-> TRUE]
    ELSE MergeVLoopAllRestart(t, column, endRow, startRow)

\* Table.MergeCellsVertically(column, startRow, endRow); indices are Go's, from 0.
MergeCellsVertically(t, column, startRow, endRow) ==
    IF column < 0 THEN [t |-> t, err |-> TRUE]
    ELSE IF startRow < 0 \/ endRow < startRow \/ endRow >= Len(t.rows)
         THEN [t |-> t, err |-> TRUE]
    ELSE MergeVLoop(t, column, startRow, endRow, startRow)

----------------------------------------------------------------------------
(* Package: parts and relationships (package.go) *)

RelTypeOfficeDocument == "http://schemas.openxmlformats.org/officeDocument/2006/relationships/officeDocument"
RelTypeImage == "http://schemas.openxmlformats.org/officeDocument/2006/relationships/image"
RelTypeHyperlink == "http://schemas.openxmlformats.org/officeDocument/2006/relationships/hyperlink"
RelTypeStyles == "http://schemas.openxmlformats.org/officeDocument/2006/relationships/styles"
RelTypeSettings == "http://schemas.openxmlformats.org/officeDocument/2006/relationships/settings"
RelTypeNumbering == "http://schemas.openxmlformats.org/officeDocument/2006/relationships/numbering"
RelTypeHeader == "http://schemas.openxmlformats.org/officeDocument/2006/relationships/header"
RelTypeFooter == "http://schemas.openxmlformats.org/officeDocument/2006/relationships/footer"
RelTypeCoreProps == "http://schemas.openxmlformats.org/package/2006/relationships/metadata/core-properties"

\* strings.HasPrefix
HasPrefix(s, prefix) == Len(s) >= Len(prefix) /\ SubSeq(s, 1, Len(prefix)) = prefix

\* strings.TrimPrefix
TrimPrefix(s, prefix) ==
    IF HasPrefix(s, prefix) THEN SubSeq(s, Len(prefix) + 1, Len(s)) ELSE s

\* path.Base: the last element of the path, trailing slashes removed
RECURSIVE PathBase(_)
PathBase(s) ==
    IF s = <<>> THEN <<".">>
    ELSE IF s[Len(s)] = "/"
         THEN IF Len(s) = 1 THEN <<"/">> ELSE PathBase(SubSeq(s, 1, Len(s) - 1))
    ELSE IF \E i \in 1..Len(s) : s[i] = "/"
         THEN LET last == CHOOSE i \in 1..Len(s) :
                            s[i] = "/" /\ \A j \in (i + 1)..Len(s) : s[j] # "/"
              IN SubSeq(s, last + 1, Len(s))
    ELSE s

WordDir == <<"w", "o", "r", "d", "/">>
DotXML == <<".", "x", "m", "l">>
RootURI == <<>>
StylesTarget == <<"s", "t", "y", "l", "e", "s">> \o DotXML
SettingsTarget == <<"s", "e", "t", "t", "i", "n", "g", "s">> \o DotXML
NumberingTarget == <<"n", "u", "m", "b", "e", "r", "i", "n", "g">> \o DotXML
DocumentURI == WordDir \o <<"d", "o", "c", "u", "m", "e", "n", "t">> \o DotXML
StylesURI == WordDir \o StylesTarget
SettingsURI == WordDir \o SettingsTarget
NumberingURI == WordDir \o NumberingTarget

RelIDPrefix == <<"r", "I", "d">>

Relationship(id, relType, target, targetMode) ==
    [ID |-> id, Type |-> relType, Target |-> target, TargetMode |-> targetMode]

\* The loop of nextRelationshipID: the largest n such that an ID is "rId" followed
\* by a decimal that strconv.Atoi accepts with value n, and 0 if there is none.
RECURSIVE MaxRelID(_, _)
MaxRelID(rels, maxID) ==
    IF rels = <<>> THEN maxID
    ELSE LET id == Head(rels).ID
             suffix == TrimPrefix(id, RelIDPrefix)
         IN IF HasPrefix(id, RelIDPrefix) /\ AtoiOk(suffix) /\ AtoiVal(suffix) > maxID
            THEN MaxRelID(Tail(rels), AtoiVal(suffix))
            ELSE MaxRelID(Tail(rels), maxID)

\* A mutant of nextRelationshipID: the number of relationships plus one.
nextRelationshipIDByCount(rel, baseURI) ==
    RelIDPrefix \o Itoa(Len(rel[baseURI]) + 1)

\* Package.nextRelationshipID(baseURI); rel is p.relations
nextRelationshipID(rel, baseURI) ==
    RelIDPrefix \o Itoa(MaxRelID(rel[baseURI], 0) + 1)

\* A mutant of ensureRelationshipWithMode: an existing relationship is reused only
\* when both target modes are empty.
ensureRelationshipWithModeInternalOnly(rel, baseURI, relType, target, targetMode) ==
    LET rels == rel[baseURI]
        hits == {i \in 1..Len(rels) :
                    /\ rels[i].Type = relType /\ rels[i].Target = target
                    /\ rels[i].TargetMode = "" /\ targetMode = ""}
    IN IF hits # {}
       THEN [rel |-> rel, allocated |-> FALSE,
             id |-> rels[CHOOSE i \in hits : \A j \in hits : i <= j].ID]
       ELSE LET id == nextRelationshipID(rel, baseURI) IN
            [rel |-> [rel EXCEPT ![baseURI] =
                         Append(rels, Relationship(id, relType, target, targetMode))],
             allocated |-> TRUE, id |-> id]

\* Package.ensureRelationshipWithMode(baseURI, relType, target, targetMode): the
\* ID it returns, p.relations after it, and whether it appended a relationship.
ensureRelationshipWithMode(rel, baseURI, relType, target, targetMode) ==
    LET rels == rel[baseURI]
        hits == {i \in 1..Len(rels) :
                    /\ rels[i].Type = relType /\ rels[i].Target = target
                    /\ \/ rels[i].TargetMode = targetMode
                       \/ (rels[i].TargetMode = "" /\ targetMode = "")}
    IN IF hits # {}
       THEN [rel |-> rel, allocated |-> FALSE,
             id |-> rels[CHOOSE i \in hits : \A j \in hits : i <= j].ID]
       ELSE LET id == nextRelationshipID(rel, baseURI) IN
            [rel |-> [rel EXCEPT ![baseURI] =
                         Append(rels, Relationship(id, relType, target, targetMode))],
             allocated |-> TRUE, id |-> id]

\* Package.ensureRelationship
ensureRelationship(rel, baseURI, relType, target) ==
    ensureRelationshipWithMode(rel, baseURI, relType, target, "")

Owners == {RootURI, DocumentURI}

\* p.relations of a package with no relationships: a missing key reads as nil
NoRelations == [o \in Owners |-> <<>>]

\* Package.addDefaultParts: p.relations when it returns
DefaultRelations ==
    LET r0 == [NoRelations EXCEPT ![RootURI] =
                  <<Relationship(RelIDPrefix \o <<"1">>, RelTypeOfficeDocument,
                                 DocumentURI, "")>>]
        r1 == ensureRelationship(r0, DocumentURI, RelTypeStyles, StylesTarget).rel
        r2 == ensureRelationship(r1, DocumentURI, RelTypeSettings, SettingsTarget).rel
    IN ensureRelationship(r2, DocumentURI, RelTypeNumbering, NumberingTarget).rel

\* Package.addDefaultParts: the names in p.parts when it returns
DefaultParts == {DocumentURI, StylesURI, SettingsURI, NumberingURI}

----------------------------------------------------------------------------
(* Section (section.go) *)

SectionStartContinuous == <<"c", "o", "n", "t", "i", "n", "u", "o", "u", "s">>
SectionStartNewPage == <<"n", "e", "x", "t", "P", "a", "g", "e">>

DefaultPageWidth == 11906
DefaultPageHeight == 16838
DefaultMargin == 1440

HeaderTypeDefault == <<"d", "e", "f", "a", "u", "l", "t">>
HeaderTypeFirst == <<"f", "i", "r", "s", "t">>
HeaderTypeEven == <<"e", "v", "e", "n">>

\* headerRefs and footerRefs are the maps from a type to the relationship ID of
\* its reference, whose header or footer is the part that the ID leads to
NewSection(startType) ==
    [startType |-> startType,
     pageWidth |-> DefaultPageWidth, pageHeight |-> DefaultPageHeight,
     marginTop |-> DefaultMargin, marginRight |-> DefaultMargin,
     marginBottom |-> DefaultMargin, marginLeft |-> DefaultMargin,
     headerRefs |-> <<>>, footerRefs |-> <<>>]

\* m[key] = value on a Go map
MapSet(m, key, value) ==
    [k \in DOMAIN m \cup {key} |-> IF k = key THEN value ELSE m[k]]

\* Section.SetMargins
SetMargins(s, top, right, bottom, left) ==
    [s EXCEPT !.marginTop = top, !.marginRight = right,
              !.marginBottom = bottom, !.marginLeft = left]

----------------------------------------------------------------------------
(* XML as the serializer writes it and as xml.Decoder.Token reads it.       *)
(* A part's bytes are the sequence of the tokens they spell: the text of a *)
(* character-data token and the value of an attribute are the characters   *)
(* between the tags or the quotes, entity references not yet replaced.     *)
(* An empty-element tag is a start token followed by an end token.         *)
(* White space between elements, which every parsing loop ignores, and the *)
(* w: and r: prefixes, which the parser drops (Name.Local), are left out.  *)

StartElement(n, a) == [k |-> "S", n |-> n, a |-> a, t |-> <<>>]
EndElement(n) == [k |-> "E", n |-> n, a |-> <<>>, t |-> <<>>]
CharData(t) == [k |-> "C", n |-> "", a |-> <<>>, t |-> t]
Attr(name, value) == [name |-> name, value |-> value]
EmptyElement(n, a) == <<StartElement(n, a), EndElement(n)>>
Element(n, a, content) == <<StartElement(n, a)>> \o content \o <<EndElement(n)>>

\* strings.ReplaceAll(s, old, new) for a one-character old
RECURSIVE ReplaceAll(_, _, _)
ReplaceAll(s, old, new) ==
    IF s = <<>> THEN <<>>
    ELSE (IF Head(s) = old THEN new ELSE <<Head(s)>>) \o ReplaceAll(Tail(s), old, new)

RefAmp == <<"&", "a", "m", "p", ";">>
RefLt == <<"&", "l", "t", ";">>
RefGt == <<"&", "g", "t", ";">>
RefQuot == <<"&", "q", "u", "o", "t", ";">>
RefApos == <<"&", "a", "p", "o", "s", ";">>

\* The three ReplaceAll calls of Run.ToXML on the text of a run
EscapeText(text) ==
    ReplaceAll(ReplaceAll(ReplaceAll(text, "&", RefAmp), "<", RefLt), ">", RefGt)

\* The entity references that the decoder replaces
Entities == { [ref |-> RefAmp, c |-> "&"], [ref |-> RefLt, c |-> "<"],
              [ref |-> RefGt, c |-> ">"], [ref |-> RefQuot, c |-> "\""],
              [ref |-> RefApos, c |-> "'"] }

\* The decoder on character data and attribute values: a predefined entity
\* reference is replaced by its character; with Strict = false any other "&"
\* stays as it is written.
RECURSIVE Unescape(_)
Unescape(s) ==
    IF s = <<>> THEN <<>>
    ELSE IF \E e \in Entities : HasPrefix(s, e.ref)
         THEN LET e == CHOOSE e \in Entities : HasPrefix(s, e.ref)
              IN <<e.c>> \o Unescape(SubSeq(s, Len(e.ref) + 1, Len(s)))
    ELSE <<Head(s)>> \o Unescape(Tail(s))

\* One token as Decoder.Token returns it
DecodeToken(tok) ==
    [k |-> tok.k, n |-> tok.n, t |-> Unescape(tok.t),
     a |-> [j \in 1..Len(tok.a) |-> Attr(tok.a[j].name, Unescape(tok.a[j].value))]]

\* The tokens that successive Decoder.Token calls return for a part's bytes
Decode(bytes) == [j \in 1..Len(bytes) |-> DecodeToken(bytes[j])]

\* attrValue(attrs, key)
attrValue(attrs, key) ==
    IF \E j \in 1..Len(attrs) : attrs[j].name = key
    THEN attrs[CHOOSE j \in 1..Len(attrs) :
                  attrs[j].name = key /\ \A h \in 1..(j - 1) : attrs[h].name # key].value
    ELSE <<>>

UpperCase == <<"A", "B", "C", "D", "E", "F", "G", "H", "I", "J", "K", "L", "M",
               "N", "O", "P", "Q", "R", "S", "T", "U", "V", "W", "X", "Y", "Z">>
LowerCase == <<"a", "b", "c", "d", "e", "f", "g", "h", "i", "j", "k", "l", "m",
               "n", "o", "p", "q", "r", "s", "t", "u", "v", "w", "x", "y", "z">>

\* strings.ToLower
ToLower(s) ==
    [j \in 1..Len(s) |->
        IF \E h \in 1..26 : UpperCase[h] = s[j]
        THEN LowerCase[CHOOSE h \in 1..26 : UpperCase[h] = s[j]]
        ELSE s[j]]

----------------------------------------------------------------------------
(* The body serializer: ToXML of Run, Paragraph, Section, Table             *)

\* Run.wrapWithHyperlink; rel is p.relations.  Of the call of
\* ensureHyperlinkRelationship this is the ID it returns: the relationship it may
\* append is the subject of the action EnsureHyperlinkRelationship.
wrapWithHyperlink(r, runXML, rel) ==
    Element("hyperlink",
        (IF r.hyperlinkURL # <<>> /\ DocumentURI \in DOMAIN rel
         THEN <<Attr("id", ensureRelationshipWithMode(rel, DocumentURI, RelTypeHyperlink,
                                                      r.hyperlinkURL, "External").id)>>
         ELSE <<>>)
        \o (IF r.hyperlinkAnchor # <<>> THEN <<Attr("anchor", r.hyperlinkAnchor)>>
            ELSE <<>>),
        runXML)

\* Picture.toXML, for a picture that has a name: of the elements, those with an
\* attribute that a field of the picture fills.  A run that has no picture
\* (r.picture == nil) is a record without the field picture.
PictureToXML(p) ==
    Element("drawing", <<>>,
        Element("inline", <<>>,
            EmptyElement("docPr", <<Attr("id", Itoa(p.docPrID))>>)
            \o Element("graphic", <<>>,
                   Element("blipFill", <<>>,
                       EmptyElement("blip", <<Attr("embed", p.relID)>>)))))

\* "<w:name/>" when on
OnElement(on, name) == IF on THEN EmptyElement(name, <<>>) ELSE <<>>

\* "<w:name w:val="%d"/>" for a *int that is not nil
IntElement(ptr, name) ==
    IF ptr # <<>> THEN EmptyElement(name, <<Attr("val", Itoa(ptr[1]))>>) ELSE <<>>

\* Run.ToXML, up to the call of wrapWithHyperlink
RunXML(r) ==
    LET rPr == OnElement(r.bold, "b") \o OnElement(r.italic, "i")
               \o OnElement(r.strike, "strike") \o OnElement(r.doubleStrike, "dstrike")
               \o OnElement(r.smallCaps, "smallCaps") \o OnElement(r.allCaps, "caps")
               \o OnElement(r.shadow, "shadow") \o OnElement(r.outline, "outline")
               \o OnElement(r.emboss, "emboss") \o OnElement(r.imprint, "imprint")
               \o (IF r.underline # WDUnderlineNone
                   THEN EmptyElement("u", <<Attr("val", r.underline)>>) ELSE <<>>)
               \o (IF r.size # 22
                   THEN EmptyElement("sz", <<Attr("val", Itoa(r.size))>>)
                        \o EmptyElement("szCs", <<Attr("val", Itoa(r.size))>>)
                   ELSE <<>>)
               \o (IF r.color # ColorAuto
                   THEN EmptyElement("color", <<Attr("val", r.color)>>) ELSE <<>>)
               \o (IF r.font # FontCalibri
                   THEN EmptyElement("rFonts", <<Attr("ascii", r.font),
                                                 Attr("hAnsi", r.font)>>)
                   ELSE <<>>)
               \o (IF r.highlight # WDColorIndexAuto
                   THEN EmptyElement("highlight", <<Attr("val", r.highlight)>>) ELSE <<>>)
               \o IntElement(r.charSpacing, "spacing") \o IntElement(r.kern, "kern")
               \o IntElement(r.baselineShift, "position")
        rPrXML == IF Len(rPr) > 0 THEN Element("rPr", <<>>, rPr) ELSE <<>>
        text == IF r.text # <<>>
                THEN Element("t", <<>>, <<CharData(EscapeText(r.text))>>)
                ELSE <<>>
        brk == IF ~r.hasBreak THEN <<>>
               ELSE IF r.breakType = BreakTypePage
                    THEN EmptyElement("br", <<Attr("type", <<"p", "a", "g", "e">>)>>)
               ELSE IF r.breakType = BreakTypeColumn
                    THEN EmptyElement("br", <<Attr("type", <<"c", "o", "l", "u", "m", "n">>)>>)
               ELSE EmptyElement("br", <<>>)
        pic == IF "picture" \in DOMAIN r THEN PictureToXML(r.picture) ELSE <<>>
        content == IF Len(text \o pic \o brk) = 0 THEN EmptyElement("t", <<>>)
                   ELSE text \o pic \o brk
    IN Element("r", <<>>, rPrXML \o content)

\* Run.ToXML
RunToXML(r) ==
    IF HasHyperlink(r) THEN wrapWithHyperlink(r, RunXML(r), relations) ELSE RunXML(r)

\* Section.headerReferenceElements and footerReferenceElements, for the types
\* default, first and even, which are written first and in this order
referenceElements(name, refs) ==
    ConcatAll([j \in 1..3 |->
        LET key == <<HeaderTypeDefault, HeaderTypeFirst, HeaderTypeEven>>[j] IN
        IF key \in DOMAIN refs /\ refs[key] # <<>>
        THEN EmptyElement(name, <<Attr("type", key), Attr("id", refs[key])>>)
        ELSE <<>>])

SectionToXML(s) ==
    Element("sectPr", <<>>,
        (IF s.startType # SectionStartContinuous
         THEN EmptyElement("type", <<Attr("val", s.startType)>>) ELSE <<>>)
        \o referenceElements("headerReference", s.headerRefs)
        \o referenceElements("footerReference", s.footerRefs)
        \o EmptyElement("pgSz", <<Attr("w", Itoa(s.pageWidth)), Attr("h", Itoa(s.pageHeight))>>)
        \o EmptyElement("pgMar", <<Attr("top", Itoa(s.marginTop)),
                                   Attr("right", Itoa(s.marginRight)),
                                   Attr("bottom", Itoa(s.marginBottom)),
                                   Attr("left", Itoa(s.marginLeft))>>))

\* onOffXML(tag, value) for a *bool that is not nil
onOffXML(tag, ptr) ==
    IF ptr = <<>> THEN <<>>
    ELSE IF ptr[1] THEN EmptyElement(tag, <<>>)
    ELSE EmptyElement(tag, <<Attr("val", <<"0">>)>>)

\* Paragraph.hasKeepSettings
hasKeepSettings(p) ==
    p.keepWithNext # <<>> \/ p.keepLines # <<>> \/ p.pageBreakBefore # <<>>
        \/ p.widowControl # <<>>

\* Paragraph.keepSettingsXML
keepSettingsXML(p) ==
    onOffXML("keepNext", p.keepWithNext) \o onOffXML("keepLines", p.keepLines)
        \o onOffXML("pageBreakBefore", p.pageBreakBefore)
        \o onOffXML("widowControl", p.widowControl)

\* Paragraph.ToXML; the style is written into the attribute as it is
ParagraphToXML(p) ==
    LET runsXML == ConcatAll([j \in 1..Len(p.runs) |-> RunToXML(p.runs[j])])
        pPr == IF p.style # <<>> \/ hasKeepSettings(p) \/ p.section # <<>>
               THEN Element("pPr", <<>>,
                        (IF p.style # <<>>
                         THEN EmptyElement("pStyle", <<Attr("val", p.style)>>) ELSE <<>>)
                        \o keepSettingsXML(p)
                        \o (IF p.section # <<>> THEN SectionToXML(p.section[1]) ELSE <<>>))
               ELSE <<>>
    IN Element("p", <<>>, pPr \o runsXML)

\* TableCell.tcPropertiesXML
tcPropertiesXML(tc) ==
    Element("tcPr", <<>>,
        EmptyElement("tcW", <<Attr("w", Itoa(tc.width)), Attr("type", <<"d", "x", "a">>)>>)
        \o (IF tc.gridSpan > 1
            THEN EmptyElement("gridSpan", <<Attr("val", Itoa(tc.gridSpan))>>) ELSE <<>>)
        \o (IF tc.verticalMerge = TableVerticalMergeRestart
            THEN EmptyElement("vMerge", <<Attr("val", <<"r", "e", "s", "t", "a", "r", "t">>)>>)
            ELSE IF tc.verticalMerge = TableVerticalMergeContinue
            THEN EmptyElement("vMerge", <<Attr("val", <<"c", "o", "n", "t", "i", "n", "u", "e">>)>>)
            ELSE <<>>))

\* TableCell.ToXML
TableCellToXML(tc) ==
    Element("tc", <<>>,
        tcPropertiesXML(tc)
        \o ConcatAll([j \in 1..Len(tc.paragraphs) |-> ParagraphToXML(tc.paragraphs[j])]))

\* TableRow.ToXML; a row of the model is the sequence of its cells
TableRowToXML(cells) ==
    Element("tr", <<>>, ConcatAll([j \in 1..Len(cells) |-> TableCellToXML(cells[j])]))

\* A mutant of FillSpan: a column that is filled is filled again.
RECURSIVE FillSpanOverwrite(_, _, _, _, _, _, _)
FillSpanOverwrite(widths, filled, col, span, per, remainder, i) ==
    IF ~(i < span /\ col < Len(widths)) THEN [widths |-> widths, filled |-> filled, col |-> col]
    ELSE LET w == IF remainder > 0 THEN per + 1 ELSE per
             set == w > 0
         IN FillSpanOverwrite(IF set THEN [widths EXCEPT ![col + 1] = w] ELSE widths,
                              IF set THEN [filled EXCEPT ![col + 1] = TRUE] ELSE filled,
                              col + 1, span, per,
                              IF remainder > 0 THEN remainder - 1 ELSE remainder, i + 1)

\* Table.columnWidths, the loop over the columns that one cell spans: col and
\* the indices of widths are Go's, from 0.
RECURSIVE FillSpan(_, _, _, _, _, _, _)
FillSpan(widths, filled, col, span, per, remainder, i) ==
    IF ~(i < span /\ col < Len(widths)) THEN [widths |-> widths, filled |-> filled, col |-> col]
    ELSE LET w == IF remainder > 0 THEN per + 1 ELSE per
             set == ~filled[col + 1] /\ w > 0
         IN FillSpan(IF set THEN [widths EXCEPT ![col + 1] = w] ELSE widths,
                     IF set THEN [filled EXCEPT ![col + 1] = TRUE] ELSE filled,
                     col + 1, span, per,
                     IF remainder > 0 THEN remainder - 1 ELSE remainder, i + 1)

\* Table.columnWidths, the loop over the cells of one row, from cell k on
RECURSIVE FillRow(_, _, _, _, _)
FillRow(widths, filled, cells, k, col) ==
    IF k > Len(cells) THEN [widths |-> widths, filled |-> filled]
    ELSE LET span == GridSpan(cells[k])
             total == cells[k].width
         IN IF total <= 0 THEN FillRow(widths, filled, cells, k + 1, col + span)
            ELSE Only({FillRow(f.widths, f.filled, cells, k + 1, f.col)
                       : f \in {FillSpan(widths, filled, col, span, total \div span,
                                         total % span, 0)}})

\* Table.columnWidths, the loop over the rows, from row r on: it ends after the
\* first row that leaves every column filled
RECURSIVE FillRows(_, _, _, _)
FillRows(widths, filled, rows, r) ==
    IF r > Len(rows) THEN widths
    ELSE Only({IF \A j \in 1..Len(f.filled) : f.filled[j] THEN f.widths
               ELSE FillRows(f.widths, f.filled, rows, r + 1)
               : f \in {FillRow(widths, filled, rows[r], 1, 0)}})

\* Table.columnWidths
columnWidths(t) ==
    IF Len(t.grid) > 0 THEN t.grid
    ELSE IF t.gridColumns <= 0 THEN <<>>
    ELSE Only({[j \in 1..t.gridColumns |->
                   IF widths[j] = 0 THEN DefaultCellWidth ELSE widths[j]]
               : widths \in {FillRows([j \in 1..t.gridColumns |-> 0],
                                      [j \in 1..t.gridColumns |-> FALSE], t.rows, 1)}})

\* Table.tblGridXML
tblGridXML(t) ==
    Only({IF Len(widths) = 0 THEN <<>>
          ELSE Element("tblGrid", <<>>,
                  ConcatAll([j \in 1..Len(widths) |->
                      EmptyElement("gridCol",
                          <<Attr("w", Itoa(IF widths[j] < 0 THEN 0 ELSE widths[j]))>>)]))
          : widths \in {columnWidths(t)}})

\* Table.tblPropertiesXML of a table whose width type is "auto"; the style,
\* indent, alignment, borders, layout, look, shading and cell margins of a
\* table are not part of the model
tblPropertiesXML(t) ==
    Element("tblPr", <<>>,
        EmptyElement("tblW", <<Attr("w", Itoa(0)), Attr("type", <<"a", "u", "t", "o">>)>>))

\* Table.ToXML
TableToXML(t) ==
    Element("tbl", <<>>,
        tblPropertiesXML(t) \o tblGridXML(t)
        \o ConcatAll([j \in 1..Len(t.rows) |-> TableRowToXML(t.rows[j])]))

\* Table.SetColumnWidths, the loop over the cells of one row, from cell k on
RECURSIVE SetRowWidths(_, _, _, _)
SetRowWidths(cells, widths, k, col) ==
    IF k > Len(cells) \/ col >= Len(widths) THEN cells
    ELSE LET span == GridSpan(cells[k])
             last == IF col + span < Len(widths) THEN col + span ELSE Len(widths)
             total == SumSeq(SubSeq(widths, col + 1, last))
         IN SetRowWidths(IF total > 0 THEN [cells EXCEPT ![k].width = total] ELSE cells,
                         widths, k + 1, col + span)

\* Table.SetColumnWidths(widths...)
SetColumnWidths(t, widths) ==
    IF Len(widths) = 0 THEN [t EXCEPT !.grid = <<>>, !.gridColumns = 0]
    ELSE [t EXCEPT !.grid = widths, !.gridColumns = Len(widths),
                   !.rows = [r \in 1..Len(t.rows) |-> SetRowWidths(t.rows[r], widths, 1, 0)]]

\* TableCell.SetText
CellSetText(tc, text) == [tc EXCEPT !.paragraphs = <<ParagraphAddRun(NewParagraph, text)>>]

\* TableCell.SetWidth
CellSetWidth(tc, width) == [tc EXCEPT !.width = width]

\* TableCell.Text
RECURSIVE JoinLines(_)
JoinLines(ss) ==
    IF ss = <<>> THEN <<>>
    ELSE IF Len(ss) = 1 THEN ss[1]
    ELSE ss[1] \o <<"\n">> \o JoinLines(Tail(ss))

CellText(tc) == JoinLines([j \in 1..Len(tc.paragraphs) |-> ParagraphText(tc.paragraphs[j])])

\* DocumentPart.updateXMLData: the bytes it stores in Part.Data.  dp holds the
\* paragraphs, tables and sections as values and in bodyElements, for each
\* element, its kind and its index in the list of its kind.
updateXMLData(dp) ==
    LET body == ConcatAll([j \in 1..Len(dp.bodyElements) |->
                    LET element == dp.bodyElements[j] IN
                    IF element.kind = "paragraph" THEN ParagraphToXML(dp.paragraphs[element.id])
                    ELSE IF element.kind = "table" THEN TableToXML(dp.tables[element.id])
                    ELSE SectionToXML(dp.sections[element.id])])
        hasSectionMarkers == \E j \in 1..Len(dp.bodyElements) :
                                 dp.bodyElements[j].kind = "section"
        fallback == IF hasSectionMarkers THEN <<>>
                    ELSE IF Len(dp.sections) > 0
                         THEN SectionToXML(dp.sections[Len(dp.sections)])
                    ELSE SectionToXML(NewSection(SectionStartContinuous))
    IN Element("document", <<>>, Element("body", <<>>, body \o fallback))

----------------------------------------------------------------------------
(* The body parser (parts.go).  toks is the sequence of tokens the decoder  *)
(* returns and i the index of the token that the next Decoder.Token call    *)
(* returns; reading past the last token is the decoder's io.EOF.  A parsing *)
(* function returns the index after the last token it read, whether it      *)
(* returned an error, and its value.  Of each switch over element names the *)
(* cases are those of the elements that the serializer of the model writes  *)
(* or that a part of the model holds; every other name takes the default    *)
(* case.                                                                    *)

ParseError(i) == [i |-> i, err |-> TRUE, v |-> <<>>]

\* skipElement, with depth elements still open
RECURSIVE skipDepth(_, _, _)
skipDepth(toks, i, depth) ==
    IF depth <= 0 THEN [i |-> i, err |-> FALSE]
    ELSE IF i > Len(toks) THEN [i |-> i, err |-> TRUE]
    ELSE skipDepth(toks, i + 1,
                   IF toks[i].k = "S" THEN depth + 1
                   ELSE IF toks[i].k = "E" THEN depth - 1 ELSE depth)

\* skipElement(decoder, start), called when the start token has been read
skipElement(toks, i) == skipDepth(toks, i, 1)

\* "if val := attrValue(attrs, key); val != "" { if v, err := strconv.Atoi(val);
\* err == nil { field = v } }": the value of the field afterwards
AtoiAttr(attrs, key, old) ==
    LET val == attrValue(attrs, key) IN
    IF val # <<>> /\ AtoiOk(val) THEN AtoiVal(val) ELSE old

\* mapBreakType
mapBreakType(val) ==
    IF ToLower(val) = <<"p", "a", "g", "e">> THEN BreakTypePage
    ELSE IF ToLower(val) = <<"c", "o", "l", "u", "m", "n">> THEN BreakTypeColumn
    ELSE BreakTypeText

\* DocumentPart.relationshipTarget(relID): rel.Target, rel.TargetMode and true of
\* the first relationship of the document part with this ID.  A package whose
\* relations have no key for the part has no relationship to find.
relationshipTarget(relID) ==
    LET rels == IF DocumentURI \in DOMAIN relations THEN relations[DocumentURI] ELSE <<>>
        hits == {j \in 1..Len(rels) : rels[j].ID = relID}
    IN IF hits = {} THEN [ok |-> FALSE, target |-> <<>>, mode |-> ""]
       ELSE LET rel == rels[CHOOSE j \in hits : \A h \in hits : j <= h]
            IN [ok |-> TRUE, target |-> rel.Target, mode |-> rel.TargetMode]

\* resolveRelationshipTarget(baseURI, target) for a baseURI in the directory word
\* and a target with no "." or ".." element
resolveRelationshipTarget(baseURI, target) ==
    IF HasPrefix(target, <<"/">>) THEN TrimPrefix(target, <<"/">>)
    ELSE SubSeq(baseURI, 1, Len(baseURI) - Len(PathBase(baseURI))) \o target

\* DocumentPart.headerFromRelationship(relID) and footerFromRelationship(relID):
\* whether it returns an error.  The parts of the model have no Data, with which
\* Header.loadFromXML and Footer.loadFromXML return nil.
headerFromRelationship(relID) ==
    LET rt == relationshipTarget(relID) IN
    IF ~rt.ok THEN [err |-> TRUE]
    ELSE [err |-> resolveRelationshipTarget(DocumentURI, rt.target) \notin parts]

\* The section after the case "headerReference" (field "headerRefs") or
\* "footerReference" (field "footerRefs") of parseSectionProperties, when
\* headerFromRelationship returned no error
addReference(section, field, attrs) ==
    LET typeVal == IF attrValue(attrs, "type") = <<>> THEN HeaderTypeDefault
                   ELSE attrValue(attrs, "type")
        relID == attrValue(attrs, "id")
    IN IF relID # <<>> THEN [section EXCEPT ![field] = MapSet(@, typeVal, relID)]
       ELSE section

\* parseSectionProperties, its loop with the section built so far
RECURSIVE sectionLoop(_, _, _, _)
sectionLoop(toks, i, startName, section) ==
    IF i > Len(toks) THEN ParseError(i)
    ELSE LET t == toks[i] IN
    IF t.k = "S"
    THEN LET sk == skipElement(toks, i + 1)
             parsed ==
                IF t.n = "type"
                THEN IF attrValue(t.a, "val") # <<>>
                     THEN [section EXCEPT !.startType = attrValue(t.a, "val")]
                     ELSE section
                ELSE IF t.n = "pgSz"
                THEN [section EXCEPT !.pageWidth = AtoiAttr(t.a, "w", @),
                                     !.pageHeight = AtoiAttr(t.a, "h", @)]
                ELSE IF t.n = "pgMar"
                THEN [section EXCEPT !.marginTop = AtoiAttr(t.a, "top", @),
                                     !.marginRight = AtoiAttr(t.a, "right", @),
                                     !.marginBottom = AtoiAttr(t.a, "bottom", @),
                                     !.marginLeft = AtoiAttr(t.a, "left", @)]
                ELSE IF t.n = "headerReference"
                THEN addReference(section, "headerRefs", t.a)
                ELSE IF t.n = "footerReference"
                THEN addReference(section, "footerRefs", t.a)
                ELSE section
         IN IF /\ t.n \in {"headerReference", "footerReference"}
               /\ attrValue(t.a, "id") # <<>>
               /\ headerFromRelationship(attrValue(t.a, "id")).err
            THEN ParseError(i + 1)
            ELSE IF sk.err THEN ParseError(sk.i)
            ELSE sectionLoop(toks, sk.i, startName, parsed)
    ELSE IF t.k = "E" /\ t.n = startName
    THEN [i |-> i + 1, err |-> FALSE, v |-> section]
    ELSE sectionLoop(toks, i + 1, startName, section)

\* parseSectionProperties(decoder, start, dp)
parseSectionProperties(toks, i, startName) ==
    sectionLoop(toks, i, startName, NewSection(SectionStartContinuous))

\* Run.AddBreak
AddBreak(run, breakType) == [run EXCEPT !.breakType = breakType, !.hasBreak = TRUE]

\* parseOnOff(attrs), dereferenced
parseOnOff(attrs) ==
    LET val == ToLower(attrValue(attrs, "val")) IN
    IF val \in {<<>>, <<"1">>, <<"t", "r", "u", "e">>, <<"o", "n">>} THEN TRUE
    ELSE IF val \in {<<"0">>, <<"f", "a", "l", "s", "e">>, <<"o", "f", "f">>} THEN FALSE
    ELSE TRUE

\* strings.EqualFold(mode, "External") on the target modes of the model
EqualFoldExternal(mode) == mode \in {"External", "external", "EXTERNAL"}

\* applyHyperlinkContext(run) of parseParagraph, st holding hyperlinkURL and
\* hyperlinkAnchor
applyHyperlinkContext(run, st) ==
    IF st.hyperlinkURL # <<>> THEN SetHyperlink(run, st.hyperlinkURL)
    ELSE IF st.hyperlinkAnchor # <<>> THEN SetHyperlinkAnchor(run, st.hyperlinkAnchor)
    ELSE run

\* The elements of parseParagraph's switch whose case sets a toggle of the
\* current run to true, and the field that it sets
RunToggleNames ==
    {"b", "i", "strike", "dstrike", "smallCaps", "caps", "shadow", "outline",
     "emboss", "imprint"}

RunToggleField(name) ==
    CASE name = "b" -> "bold" [] name = "i" -> "italic" [] name = "strike" -> "strike"
      [] name = "dstrike" -> "doubleStrike" [] name = "smallCaps" -> "smallCaps"
      [] name = "caps" -> "allCaps" [] name = "shadow" -> "shadow"
      [] name = "outline" -> "outline" [] name = "emboss" -> "emboss"
      [] name = "imprint" -> "imprint"

\* The elements whose case sets a keep setting of the paragraph, and its field
KeepNames == {"keepNext", "keepLines", "pageBreakBefore", "widowControl"}

KeepField(name) ==
    CASE name = "keepNext" -> "keepWithNext" [] name = "keepLines" -> "keepLines"
      [] name = "pageBreakBefore" -> "pageBreakBefore"
      [] name = "widowControl" -> "widowControl"

\* The current run after the case of a start element that sets a field of it
runProperty(run, t) ==
    IF t.n \in RunToggleNames THEN [run EXCEPT ![RunToggleField(t.n)] = TRUE]
    ELSE IF t.n = "u"
    THEN [run EXCEPT !.underline = IF attrValue(t.a, "val") = <<>> THEN WDUnderlineSingle
                                   ELSE attrValue(t.a, "val")]
    ELSE IF t.n = "color"
    THEN IF attrValue(t.a, "val") # <<>> THEN [run EXCEPT !.color = attrValue(t.a, "val")]
         ELSE run
    ELSE IF t.n = "rFonts"
    THEN LET font == IF attrValue(t.a, "ascii") = <<>> THEN attrValue(t.a, "hAnsi")
                     ELSE attrValue(t.a, "ascii")
         IN IF font # <<>> THEN [run EXCEPT !.font = font] ELSE run
    ELSE IF t.n = "sz" THEN [run EXCEPT !.size = AtoiAttr(t.a, "val", @)]
    ELSE IF t.n = "highlight"
    THEN IF attrValue(t.a, "val") # <<>>
         THEN [run EXCEPT !.highlight = attrValue(t.a, "val")] ELSE run
    ELSE IF t.n \in {"spacing", "kern", "position"}
    THEN LET field == CASE t.n = "spacing" -> "charSpacing" [] t.n = "kern" -> "kern"
                        [] t.n = "position" -> "baselineShift"
             val == attrValue(t.a, "val")
         IN IF val # <<>> /\ AtoiOk(val) THEN [run EXCEPT ![field] = <<AtoiVal(val)>>]
            ELSE run
    ELSE run

\* The variables of parseParagraph after the case of the start element t.  The
\* cases are those of the elements that the serializer of the model writes or
\* that a part of the model holds: "jc", "pBdr", "ind", "numPr", "tabs", "shd" and
\* "drawing" are in none, and the spacing of a paragraph is no field of it.
startElement(st, t) ==
    LET hasRun == st.currentRun # <<>> IN
    IF t.n = "pStyle"
    THEN IF attrValue(t.a, "val") # <<>>
         THEN [st EXCEPT !.paragraph.style = attrValue(t.a, "val")] ELSE st
    ELSE IF t.n \in KeepNames
    THEN [st EXCEPT !.paragraph[KeepField(t.n)] = <<parseOnOff(t.a)>>]
    ELSE IF t.n = "hyperlink"
    THEN LET anchor == attrValue(t.a, "anchor")
             relID == attrValue(t.a, "id")
             rt == relationshipTarget(relID)
         IN IF relID # <<>> /\ rt.ok
            THEN IF EqualFoldExternal(rt.mode)
                 THEN [st EXCEPT !.hyperlinkURL = rt.target, !.hyperlinkAnchor = anchor]
                 ELSE [st EXCEPT !.hyperlinkURL = <<>>,
                                 !.hyperlinkAnchor = IF anchor = <<>> THEN rt.target
                                                     ELSE anchor]
            ELSE [st EXCEPT !.hyperlinkURL = <<>>, !.hyperlinkAnchor = anchor]
    ELSE IF t.n = "r"
    THEN [st EXCEPT !.currentRun = <<applyHyperlinkContext(NewRun(<<>>), st)>>]
    ELSE IF t.n = "t" THEN [st EXCEPT !.textBuffer = <<>>, !.inText = TRUE]
    ELSE IF t.n = "br"
    THEN LET run == IF hasRun THEN st.currentRun[1]
                    ELSE applyHyperlinkContext(NewRun(<<>>), st)
         IN [st EXCEPT !.currentRun = <<AddBreak(run, mapBreakType(attrValue(t.a, "type")))>>]
    ELSE IF hasRun THEN [st EXCEPT !.currentRun = <<runProperty(st.currentRun[1], t)>>]
    ELSE st

\* The elements of parseParagraph's switch whose case returns to the loop with
\* the children of the element still to be read
ReadOnNames ==
    {"pPr", "rPr", "pStyle", "hyperlink", "r", "t", "b", "i", "u", "color", "rFonts",
     "highlight", "br"}

\* parseParagraph, its loop: st holds the paragraph built so far, currentRun
\* (<<>> for nil), textBuffer, inText, hyperlinkURL and hyperlinkAnchor.  Every
\* case of a start element that is not in ReadOnNames, the default case among
\* them, ends with skipElement; the case "sectPr" parses the section.
RECURSIVE paragraphLoop(_, _, _)
paragraphLoop(toks, i, st) ==
    IF i > Len(toks) THEN ParseError(i)
    ELSE LET t == toks[i]
             hasRun == st.currentRun # <<>>
    IN
    IF t.k = "S" THEN
        IF t.n = "sectPr"
        THEN Only({IF sect.err THEN ParseError(sect.i)
                   ELSE paragraphLoop(toks, sect.i,
                            [st EXCEPT !.paragraph.section = <<sect.v>>])
                   : sect \in {parseSectionProperties(toks, i + 1, t.n)}})
        ELSE IF t.n \in ReadOnNames
        THEN paragraphLoop(toks, i + 1, startElement(st, t))
        ELSE Only({IF sk.err THEN ParseError(sk.i)
                   ELSE paragraphLoop(toks, sk.i, startElement(st, t))
                   : sk \in {skipElement(toks, i + 1)}})
    ELSE IF t.k = "C" THEN
        paragraphLoop(toks, i + 1,
            IF st.inText /\ hasRun THEN [st EXCEPT !.textBuffer = @ \o t.t] ELSE st)
    ELSE IF t.n = "t"
        THEN paragraphLoop(toks, i + 1,
                 [(IF hasRun THEN [st EXCEPT !.currentRun[1].text = @ \o st.textBuffer]
                   ELSE st) EXCEPT !.inText = FALSE])
    ELSE IF t.n = "r"
        THEN paragraphLoop(toks, i + 1,
                 [(IF hasRun THEN [st EXCEPT !.paragraph.runs = Append(@, st.currentRun[1])]
                   ELSE st) EXCEPT !.currentRun = <<>>])
    ELSE IF t.n = "hyperlink"
        THEN paragraphLoop(toks, i + 1,
                 [st EXCEPT !.hyperlinkURL = <<>>, !.hyperlinkAnchor = <<>>])
    ELSE IF t.n = "p" THEN [i |-> i + 1, err |-> FALSE, v |-> st.paragraph]
    ELSE paragraphLoop(toks, i + 1, st)

\* parseParagraph(decoder, start, dp)
parseParagraph(toks, i) ==
    paragraphLoop(toks, i, [paragraph |-> NewParagraph, currentRun |-> <<>>,
                            textBuffer |-> <<>>, inText |-> FALSE,
                            hyperlinkURL |-> <<>>, hyperlinkAnchor |-> <<>>])

\* parseTableProperties: the children of tblPr are read to their end tags and
\* set fields of the table that are not part of the model
RECURSIVE parseTableProperties(_, _, _)
parseTableProperties(toks, i, startName) ==
    IF i > Len(toks) THEN ParseError(i)
    ELSE IF toks[i].k = "S"
    THEN LET sk == skipElement(toks, i + 1) IN
         IF sk.err THEN ParseError(sk.i) ELSE parseTableProperties(toks, sk.i, startName)
    ELSE IF toks[i].k = "E" /\ toks[i].n = startName
    THEN [i |-> i + 1, err |-> FALSE, v |-> <<>>]
    ELSE parseTableProperties(toks, i + 1, startName)

\* parseTableGrid, its loop with the widths read so far
RECURSIVE gridLoop(_, _, _, _)
gridLoop(toks, i, startName, widths) ==
    IF i > Len(toks) THEN ParseError(i)
    ELSE LET t == toks[i] IN
    IF t.k = "S"
    THEN LET sk == skipElement(toks, i + 1) IN
         IF sk.err THEN ParseError(sk.i)
         ELSE gridLoop(toks, sk.i, startName,
                       IF t.n = "gridCol" THEN Append(widths, AtoiAttr(t.a, "w", 0))
                       ELSE widths)
    ELSE IF t.k = "E" /\ t.n = startName
    THEN [i |-> i + 1, err |-> FALSE, v |-> widths]
    ELSE gridLoop(toks, i + 1, startName, widths)

\* parseTableGrid(decoder, start)
parseTableGrid(toks, i, startName) == gridLoop(toks, i, startName, <<>>)

\* parseTableCellProperties, its loop with the cell built so far
RECURSIVE cellPropertiesLoop(_, _, _, _)
cellPropertiesLoop(toks, i, startName, cell) ==
    IF i > Len(toks) THEN ParseError(i)
    ELSE LET t == toks[i] IN
    IF t.k = "S"
    THEN LET sk == skipElement(toks, i + 1)
             state == attrValue(t.a, "val")
             parsed ==
                IF t.n = "tcW" THEN [cell EXCEPT !.width = AtoiAttr(t.a, "w", @)]
                ELSE IF t.n = "gridSpan"
                THEN [cell EXCEPT !.gridSpan = AtoiAttr(t.a, "val", @)]
                ELSE IF t.n = "vMerge"
                THEN IF state = <<"r", "e", "s", "t", "a", "r", "t">>
                     THEN [cell EXCEPT !.verticalMerge = TableVerticalMergeRestart]
                     ELSE IF state = <<"c", "o", "n", "t", "i", "n", "u", "e">> \/ state = <<>>
                     THEN [cell EXCEPT !.verticalMerge = TableVerticalMergeContinue]
                     ELSE cell
                ELSE cell
         IN IF sk.err THEN ParseError(sk.i)
            ELSE cellPropertiesLoop(toks, sk.i, startName, parsed)
    ELSE IF t.k = "E" /\ t.n = startName
    THEN [i |-> i + 1, err |-> FALSE, v |-> cell]
    ELSE cellPropertiesLoop(toks, i + 1, startName, cell)

\* parseTableCell, its loop with the cell built so far
RECURSIVE cellLoop(_, _, _, _)
cellLoop(toks, i, startName, cell) ==
    IF i > Len(toks) THEN ParseError(i)
    ELSE LET t == toks[i] IN
    IF t.k = "S"
    THEN IF t.n = "tcPr"
         THEN Only({IF pr.err THEN ParseError(pr.i)
                    ELSE cellLoop(toks, pr.i, startName, pr.v)
                    : pr \in {cellPropertiesLoop(toks, i + 1, t.n, cell)}})
         ELSE IF t.n = "p"
         THEN Only({IF par.err THEN ParseError(par.i)
                    ELSE cellLoop(toks, par.i, startName,
                                  [cell EXCEPT !.paragraphs = Append(@, par.v)])
                    : par \in {parseParagraph(toks, i + 1)}})
         ELSE LET sk == skipElement(toks, i + 1) IN
              IF sk.err THEN ParseError(sk.i) ELSE cellLoop(toks, sk.i, startName, cell)
    ELSE IF t.k = "E" /\ t.n = startName
    THEN [i |-> i + 1, err |-> FALSE,
          v |-> IF Len(cell.paragraphs) = 0
                THEN [cell EXCEPT !.paragraphs = <<NewParagraph>>] ELSE cell]
    ELSE cellLoop(toks, i + 1, startName, cell)

\* parseTableCell(decoder, start, row, dp)
parseTableCell(toks, i, startName) ==
    cellLoop(toks, i, startName,
             [paragraphs |-> <<>>, width |-> DefaultCellWidth, gridSpan |-> 0,
              verticalMerge |-> TableVerticalMergeNone])

\* parseTableRow, its loop with the cells read so far
RECURSIVE rowLoop(_, _, _, _)
rowLoop(toks, i, startName, cells) ==
    IF i > Len(toks) THEN ParseError(i)
    ELSE LET t == toks[i] IN
    IF t.k = "S"
    THEN IF t.n = "tc"
         THEN Only({IF cell.err THEN ParseError(cell.i)
                    ELSE rowLoop(toks, cell.i, startName, Append(cells, cell.v))
                    : cell \in {parseTableCell(toks, i + 1, t.n)}})
         ELSE LET sk == skipElement(toks, i + 1) IN
              IF sk.err THEN ParseError(sk.i) ELSE rowLoop(toks, sk.i, startName, cells)
    ELSE IF t.k = "E" /\ t.n = startName
    THEN [i |-> i + 1, err |-> FALSE, v |-> cells]
    ELSE rowLoop(toks, i + 1, startName, cells)

\* parseTableRow(decoder, start, table, dp)
parseTableRow(toks, i, startName) == rowLoop(toks, i, startName, <<>>)

\* parseTable, its loop with the table built so far
RECURSIVE tableLoop(_, _, _, _)
tableLoop(toks, i, startName, table) ==
    IF i > Len(toks) THEN ParseError(i)
    ELSE LET t == toks[i] IN
    IF t.k = "S"
    THEN IF t.n = "tr"
         THEN Only({IF row.err THEN ParseError(row.i)
                    ELSE tableLoop(toks, row.i, startName,
                            [table EXCEPT !.rows = Append(@, row.v),
                                          !.gridColumns =
                                              IF Len(row.v) > @ THEN Len(row.v) ELSE @])
                    : row \in {parseTableRow(toks, i + 1, t.n)}})
         ELSE IF t.n = "tblPr"
         THEN LET pr == parseTableProperties(toks, i + 1, t.n) IN
              IF pr.err THEN ParseError(pr.i) ELSE tableLoop(toks, pr.i, startName, table)
         ELSE IF t.n = "tblGrid"
         THEN Only({IF grid.err THEN ParseError(grid.i)
                    ELSE tableLoop(toks, grid.i, startName,
                            IF Len(grid.v) > 0
                            THEN [table EXCEPT !.grid = grid.v,
                                               !.gridColumns =
                                                   IF Len(grid.v) > @ THEN Len(grid.v) ELSE @]
                            ELSE table)
                    : grid \in {parseTableGrid(toks, i + 1, t.n)}})
         ELSE LET sk == skipElement(toks, i + 1) IN
              IF sk.err THEN ParseError(sk.i) ELSE tableLoop(toks, sk.i, startName, table)
    ELSE IF t.k = "E" /\ t.n = startName
    THEN [i |-> i + 1, err |-> FALSE,
          v |-> IF table.gridColumns = 0 /\ Len(table.rows) > 0
                THEN [table EXCEPT !.gridColumns = Len(table.rows[1])] ELSE table]
    ELSE tableLoop(toks, i + 1, startName, table)

\* parseTable(decoder, start, dp)
parseTable(toks, i, startName) ==
    tableLoop(toks, i, startName, [rows |-> <<>>, gridColumns |-> 0, grid |-> <<>>])

\* The lists of a DocumentPart whose loadFromXML has read nothing yet
EmptyPart == [paragraphs |-> <<>>, tables |-> <<>>, sections |-> <<>>,
              bodyElements |-> <<>>, err |-> FALSE]

documentElement(kind, id) == [kind |-> kind, id |-> id]

\* Decoder.Token at the end of the input: io.EOF when every element that was
\* opened has been closed, and the syntax error "unexpected EOF" otherwise
UnexpectedEOF(toks) ==
    Cardinality({j \in 1..Len(toks) : toks[j].k = "S"})
        > Cardinality({j \in 1..Len(toks) : toks[j].k = "E"})

\* DocumentPart.loadFromXML, its loop over the tokens of the part
RECURSIVE loadLoop(_, _, _)
loadLoop(toks, i, dp) ==
    IF i > Len(toks)
    THEN IF UnexpectedEOF(toks) THEN [dp EXCEPT !.err = TRUE]
         ELSE IF Len(dp.sections) = 0
         THEN [dp EXCEPT !.sections = <<NewSection(SectionStartContinuous)>>]
         ELSE dp
    ELSE LET t == toks[i] IN
    IF t.k = "S" /\ t.n = "p"
    THEN Only({IF par.err THEN [dp EXCEPT !.err = TRUE]
               ELSE loadLoop(toks, par.i,
                       [dp EXCEPT !.paragraphs = Append(@, par.v),
                                  !.bodyElements =
                                      Append(@, documentElement("paragraph",
                                                                Len(dp.paragraphs) + 1))])
               : par \in {parseParagraph(toks, i + 1)}})
    ELSE IF t.k = "S" /\ t.n = "tbl"
    THEN Only({IF tab.err THEN [dp EXCEPT !.err = TRUE]
               ELSE loadLoop(toks, tab.i,
                       [dp EXCEPT !.tables = Append(@, tab.v),
                                  !.bodyElements =
                                      Append(@, documentElement("table", Len(dp.tables) + 1))])
               : tab \in {parseTable(toks, i + 1, t.n)}})
    ELSE IF t.k = "S" /\ t.n = "sectPr"
    THEN Only({IF sect.err THEN [dp EXCEPT !.err = TRUE]
               ELSE loadLoop(toks, sect.i,
                       [dp EXCEPT !.sections = Append(@, sect.v),
                                  !.bodyElements =
                                      Append(@, documentElement("section",
                                                                Len(dp.sections) + 1))])
               : sect \in {parseSectionProperties(toks, i + 1, t.n)}})
    ELSE loadLoop(toks, i + 1, dp)

\* DocumentPart.loadFromXML on a part whose Data is bytes
loadFromXML(bytes) ==
    IF Len(bytes) = 0 THEN EmptyPart ELSE loadLoop(Decode(bytes), 1, EmptyPart)

\* The Data of the part that NewDocumentPart creates
DefaultDocumentXML ==
    Element("document", <<>>, Element("body", <<>>,
        Element("sectPr", <<>>,
            EmptyElement("pgSz", <<Attr("w", Itoa(11906)), Attr("h", Itoa(16838))>>)
            \o EmptyElement("pgMar", <<Attr("top", Itoa(1440)), Attr("right", Itoa(1440)),
                                       Attr("bottom", Itoa(1440)), Attr("left", Itoa(1440))>>))))

----------------------------------------------------------------------------
(* The merge operations on a standalone table *)

NoMerge == [op |-> "none", a |-> 0, b |-> 0, c |-> 0, err |-> FALSE, before |-> <<>>,
            n |-> 0]

NoEnsure == [called |-> FALSE, owner |-> <<>>, type |-> "", target |-> <<>>,
             mode |-> "", id |-> <<>>, allocated |-> FALSE, before |-> <<>>,
             everBefore |-> {}, n |-> 0]

\* zipReader is Package.zipReader: "nil" in a package that NewPackage made, "open"
\* in one that OpenPackage made, "closed" when Close has been called on that;
\* closed says that Close has been called on the document
NoDocOp == [op |-> "none", err |-> FALSE, n |-> 0, ops |-> {}, arg |-> 0,
            dims |-> <<>>, panic |-> FALSE, zipReader |-> "nil", closed |-> FALSE]

IdleDoc ==
    /\ heap = <<>> /\ paragraphs = <<>> /\ tables = <<>> /\ sections = <<>>
    /\ bodyElements = <<>> /\ data = <<>> /\ file = <<>> /\ lastDoc = NoDocOp

IdleRel ==
    /\ relations = <<>> /\ parts = {} /\ everIDs = <<>>
    /\ lastEnsure = NoEnsure /\ docPart = <<>>
    /\ contentTypes = {} /\ archive = <<>>

IdleTbl == tbl = NewTable(0, 0) /\ lastMerge = NoMerge

\* no call on the document with headers and pictures has been made
NoHdrOp == [op |-> "none", err |-> FALSE, id |-> 0, n |-> 0]

IdleHdr ==
    /\ docBody = <<>> /\ docSection = <<>> /\ hdrTree = <<>> /\ hdrData = <<>>
    /\ drawingCounter = 0 /\ loose = <<>> /\ saved = <<>> /\ lastHdr = NoHdrOp

InitTbl ==
    /\ IdleDoc /\ IdleRel /\ IdleHdr
    /\ \E r \in 1..MaxRows, c \in 1..MaxCols : tbl = NewTable(r, c)
    /\ lastMerge = NoMerge

\* a call t.MergeCellsHorizontally(rowIndex, start, end)
DoMergeCellsHorizontally ==
    \E rowIndex \in -1..MaxRows, start \in -1..MaxCols, end \in -1..MaxCols :
        LET r == MergeCellsHorizontally(tbl, rowIndex, start, end) IN
        /\ lastMerge.n < MaxMerges
        /\ tbl' = r.t
        /\ lastMerge' = [op |-> "H", a |-> rowIndex, b |-> start, c |-> end,
                         err |-> r.err, before |-> tbl.rows,
                         n |-> lastMerge.n + 1]
        /\ UNCHANGED <<docVars, relVars, hdrVars>>

\* a call t.MergeCellsVertically(column, startRow, endRow)
DoMergeCellsVertically ==
    \E column \in -1..MaxCols, startRow \in -1..MaxRows, endRow \in -1..MaxRows :
        LET r == MergeCellsVertically(tbl, column, startRow, endRow) IN
        /\ lastMerge.n < MaxMerges
        /\ tbl' = r.t
        /\ lastMerge' = [op |-> "V", a |-> column, b |-> startRow, c |-> endRow,
                         err |-> r.err, before |-> tbl.rows,
                         n |-> lastMerge.n + 1]
        /\ UNCHANGED <<docVars, relVars, hdrVars>>

\* a call t.AddRow()
DoAddRow ==
    /\ lastMerge.n < MaxMerges /\ Len(tbl.rows) < MaxTblRows
    /\ tbl' = AddRow(tbl)
    /\ lastMerge' = [op |-> "AddRow", a |-> 0, b |-> 0, c |-> 0, err |-> FALSE,
                     before |-> tbl.rows, n |-> lastMerge.n + 1]
    /\ UNCHANGED <<docVars, relVars, hdrVars>>

\* a call t.InsertRowAt(index)
DoInsertRowAt ==
    \E index \in -1..(MaxTblRows + 1) :
        /\ lastMerge.n < MaxMerges /\ Len(tbl.rows) < MaxTblRows
        /\ tbl' = InsertRowAt(tbl, index)
        /\ lastMerge' = [op |-> "InsertRowAt", a |-> index, b |-> 0, c |-> 0, err |-> FALSE,
                         before |-> tbl.rows, n |-> lastMerge.n + 1]
        /\ UNCHANGED <<docVars, relVars, hdrVars>>

NextTbl ==
    DoMergeCellsHorizontally \/ DoMergeCellsVertically \/ DoAddRow \/ DoInsertRowAt

SpecTbl == InitTbl /\ [][NextTbl]_vars

----------------------------------------------------------------------------
(* The package operations that read and write relationship lists *)

RelID(n) == RelIDPrefix \o Itoa(n)

CorePropsTarget == <<"d", "o", "c", "P", "r", "o", "p", "s", "/", "c", "o", "r", "e">> \o DotXML
UrlA == <<"h", "t", "t", "p", "s", ":", "/", "/", "a">>
UrlB == <<"h", "t", "t", "p", "s", ":", "/", "/", "b">>
Urls == {UrlA, UrlB}
HeaderURIs == {WordDir \o <<"h", "e", "a", "d", "e", "r", "1">> \o DotXML,
               WordDir \o <<"h", "e", "a", "d", "e", "r", "2">> \o DotXML}
FooterURIs == {WordDir \o <<"f", "o", "o", "t", "e", "r", "1">> \o DotXML}
ImageTarget == <<"m", "e", "d", "i", "a", "/", "i", "m", "a", "g", "e", "1", ".", "p", "n", "g">>
ImageURIs == {WordDir \o ImageTarget}

\* the PartName of the Override of a part: "/" and the part's name
OverrideName(uri) == <<"/">> \o uri

\* Package.addDefaultParts: the keys of p.contentTypes when it returns
DefaultOverrides == {OverrideName(u) : u \in DefaultParts}

\* the Override names of [Content_Types].xml of the files that are opened, as
\* parseContentTypes keeps them: for the main document alone, and also for a
\* styles part that the file does not hold
LoadedOverrides ==
    { {OverrideName(DocumentURI)},
      {OverrideName(DocumentURI), OverrideName(StylesURI)} }

\* _rels/.rels of the files that are opened
LoadedRootRels ==
    { <<>>,
      <<Relationship(RelID(1), RelTypeOfficeDocument, DocumentURI, "")>>,
      <<Relationship(RelID(3), RelTypeCoreProps, CorePropsTarget, ""),
        Relationship(RelID(1), RelTypeOfficeDocument, DocumentURI, "")>>,
      <<Relationship(RelID(1), RelTypeCoreProps, CorePropsTarget, ""),
        Relationship(RelID(2), RelTypeOfficeDocument, <<"/">> \o DocumentURI, "")>> }

\* word/_rels/document.xml.rels of the files that are opened: none, IDs that are
\* sparse and out of order, IDs that are not "rId" and a decimal without leading
\* zero, and one target under two target modes
LoadedDocRels ==
    { <<>>,
      <<Relationship(RelID(3), RelTypeStyles, StylesTarget, ""),
        Relationship(RelID(1), RelTypeSettings, SettingsTarget, "")>>,
      <<Relationship(RelIDPrefix \o <<"0", "2">>, RelTypeHyperlink, UrlA, "External"),
        Relationship(<<"x", "1">>, RelTypeImage, ImageTarget, "")>>,
      <<Relationship(RelID(4), RelTypeHyperlink, UrlA, ""),
        Relationship(RelID(2), RelTypeHyperlink, UrlA, "External")>> }

IDsOf(rels) == {rels[i].ID : i \in 1..Len(rels)}

\* NewPackage, or OpenPackage (loadParts) of a file
InitRel ==
    /\ IdleDoc /\ IdleTbl /\ IdleHdr
    /\ \/ relations = DefaultRelations /\ parts = DefaultParts
          /\ contentTypes = DefaultOverrides
       \/ /\ \E root \in LoadedRootRels, doc \in LoadedDocRels :
                relations = [NoRelations EXCEPT ![RootURI] = root, ![DocumentURI] = doc]
          /\ parts \in {{DocumentURI}, {DocumentURI, NumberingURI}}
          /\ contentTypes \in LoadedOverrides
    /\ archive = <<>>
    /\ everIDs = [o \in Owners |-> IDsOf(relations[o])]
    /\ lastEnsure = NoEnsure
    /\ docPart = <<>>

\* Package.MainDocumentPart
MainDocumentPart ==
    LET rels == relations[RootURI]
        found == {i \in 1..Len(rels) :
                     rels[i].Type = RelTypeOfficeDocument /\ rels[i].Target \in parts}
    IN
    /\ lastEnsure.n < MaxEnsure
    /\ IF found # {}
       THEN /\ docPart' = <<rels[CHOOSE i \in found : \A j \in found : i <= j].Target>>
            /\ UNCHANGED <<relations, parts, contentTypes>>
       ELSE /\ parts' = parts \cup {DocumentURI}
            /\ contentTypes' = contentTypes \cup {OverrideName(DocumentURI)}
            /\ relations' = [relations EXCEPT ![RootURI] =
                   Append(@, Relationship(RelIDPrefix \o <<"1">>, RelTypeOfficeDocument,
                                          DocumentURI, ""))]
            /\ docPart' = <<DocumentURI>>
    /\ everIDs' = [o \in Owners |-> everIDs[o] \cup IDsOf(relations'[o])]
    /\ lastEnsure' = [NoEnsure EXCEPT !.n = lastEnsure.n + 1]
    /\ UNCHANGED <<archive, docVars, tblVars, hdrVars>>

\* a call p.ensureRelationshipWithMode(owner, relType, target, mode) made by an
\* operation that has put the parts newParts into p.parts and the names newTypes
\* into p.contentTypes
Ensure(owner, relType, target, mode, newParts, newTypes) ==
    LET r == ensureRelationshipWithMode(relations, owner, relType, target, mode) IN
    /\ lastEnsure.n < MaxEnsure
    /\ relations' = r.rel
    /\ parts' = parts \cup newParts
    /\ contentTypes' = contentTypes \cup newTypes
    /\ everIDs' = [o \in Owners |-> everIDs[o] \cup IDsOf(r.rel[o])]
    /\ lastEnsure' = [called |-> TRUE, owner |-> owner, type |-> relType,
                      target |-> target, mode |-> mode, id |-> r.id,
                      allocated |-> r.allocated, before |-> relations[owner],
                      everBefore |-> everIDs[owner], n |-> lastEnsure.n + 1]
    /\ UNCHANGED <<docPart, archive, docVars, tblVars, hdrVars>>

\* DocumentPart.ensureHyperlinkRelationship(url), as Run.wrapWithHyperlink calls it
EnsureHyperlinkRelationship ==
    /\ docPart # <<>>
    /\ \E url \in Urls : Ensure(docPart[1], RelTypeHyperlink, url, "External", {}, {})

\* DocumentPart.createHeaderPart; uri is the URI of the part newHeaderPart
\* returns, types the Override it has registered for it, if any
CreateHeaderPart ==
    /\ docPart # <<>>
    /\ \E uri \in HeaderURIs : \E types \in {{}, {OverrideName(uri)}} :
          Ensure(docPart[1], RelTypeHeader, PathBase(uri), "", {uri}, types)

\* DocumentPart.createFooterPart; uri is the URI of the part newFooterPart
\* returns, types the Override it has registered for it, if any
CreateFooterPart ==
    /\ docPart # <<>>
    /\ \E uri \in FooterURIs : \E types \in {{}, {OverrideName(uri)}} :
          Ensure(docPart[1], RelTypeFooter, PathBase(uri), "", {uri}, types)

\* DocumentPart.addPictureFromFile, from the call of addImagePart on; partURI is
\* the URI that addImagePart returns, types the Override it has registered, if any
AddPictureFromFile ==
    /\ docPart # <<>>
    /\ \E partURI \in ImageURIs : \E types \in {{}, {OverrideName(partURI)}} :
          Ensure(docPart[1], RelTypeImage, TrimPrefix(partURI, WordDir), "", {partURI},
                 types)

\* Numbering.ensurePart, when the package has no numbering part
NumberingEnsurePart ==
    /\ docPart # <<>>
    /\ NumberingURI \notin parts
    /\ Ensure(DocumentURI, RelTypeNumbering, NumberingTarget, "", {NumberingURI},
              {OverrideName(NumberingURI)})

\* Package.SaveAs: an entry for every part, a relationships entry for every
\* owner of p.relations, and [Content_Types].xml with an Override for every
\* name of p.contentTypes (writeContentTypes)
PackageSaveAs ==
    /\ archive' = <<[parts |-> parts, relations |-> relations, overrides |-> contentTypes]>>
    /\ UNCHANGED <<relations, parts, everIDs, lastEnsure, docPart, contentTypes,
                   docVars, tblVars, hdrVars>>

NextRel ==
    \/ MainDocumentPart
    \/ PackageSaveAs
    \/ EnsureHyperlinkRelationship
    \/ CreateHeaderPart
    \/ CreateFooterPart
    \/ AddPictureFromFile
    \/ NumberingEnsurePart

SpecRel == InitRel /\ [][NextRel]_vars

----------------------------------------------------------------------------
(* The document operations (document.go, parts.go).  heap holds the objects *)
(* behind the *Paragraph, *Table and *Section pointers, each kind numbered  *)
(* from 1 in the order of creation; the lists of the part and the pointers  *)
(* that callers keep are these numbers, and 0 is nil.                       *)

Texts == {<<"a">>, <<"<", "&">>}
TextArgs == {<<>>} \cup {<<text>> : text \in Texts}
CellWidths == {2880}
ColumnWidthArgs == {<<>>, <<720, 2160>>}
MarginArgs == {<<720, 360, 1080, 180>>}
StartTypes == {SectionStartNewPage}
HeadingLevels == {1, 10}

IndexOf(ids, id) == CHOOSE j \in 1..Len(ids) : ids[j] = id

Contains(ids, id) == \E j \in 1..Len(ids) : ids[j] = id

RemoveAt(seq, j) == SubSeq(seq, 1, j - 1) \o SubSeq(seq, j + 1, Len(seq))

\* A mutant of InsertAt: the element is put at the end.
InsertAtEnd(seq, j, e) == Append(seq, e)

\* append(seq[:j], append([]T{e}, seq[j:]...)...): e after the first j elements
InsertAt(seq, j, e) == SubSeq(seq, 1, j) \o <<e>> \o SubSeq(seq, j + 1, Len(seq))

\* The part as updateXMLData reads it: the objects of its lists, and for each
\* body element its kind and its index in the list of its kind
PartOf(h, ps, ts, ss, be) ==
    [paragraphs |-> [j \in 1..Len(ps) |-> h.p[ps[j]]],
     tables |-> [j \in 1..Len(ts) |-> h.t[ts[j]]],
     sections |-> [j \in 1..Len(ss) |-> h.s[ss[j]]],
     bodyElements |-> [j \in 1..Len(be) |->
        documentElement(be[j].kind,
            IF be[j].kind = "paragraph" THEN IndexOf(ps, be[j].id)
            ELSE IF be[j].kind = "table" THEN IndexOf(ts, be[j].id)
            ELSE IndexOf(ss, be[j].id))]]

Part == PartOf(heap, paragraphs, tables, sections, bodyElements)

\* the state of a DocumentPart after loadFromXML returned dp
Loaded(dp) ==
    /\ heap = [p |-> dp.paragraphs, t |-> dp.tables, s |-> dp.sections]
    /\ paragraphs = [j \in 1..Len(dp.paragraphs) |-> j]
    /\ tables = [j \in 1..Len(dp.tables) |-> j]
    /\ sections = [j \in 1..Len(dp.sections) |-> j]
    /\ bodyElements = dp.bodyElements

\* NewDocument: NewPackage, then MainDocumentPart, which loads the default part
InitDoc ==
    /\ IdleRel /\ IdleTbl /\ IdleHdr
    /\ Loaded(loadFromXML(DefaultDocumentXML))
    /\ data = DefaultDocumentXML
    /\ file = <<>>
    /\ lastDoc = NoDocOp

\* the end of every document operation: the lists and objects it leaves, the
\* bytes it leaves in Part.Data, and what it returned
\* arg is the pointer and dims the <<rows, cols>> that the operation was called
\* with, where a claim needs them; panic says that the call did not return but
\* panicked, which ends the program
DocReturn(h, ps, ts, ss, be, bytes, op, err, arg, dims, panic) ==
    /\ lastDoc.n < MaxSteps /\ ~lastDoc.panic
    /\ heap' = h /\ paragraphs' = ps /\ tables' = ts /\ sections' = ss
    /\ bodyElements' = be
    /\ data' = bytes
    /\ lastDoc' = [op |-> op, err |-> err, n |-> lastDoc.n + 1,
                    ops |-> lastDoc.ops \cup {op}, arg |-> arg, dims |-> dims,
                    panic |-> panic, zipReader |-> lastDoc.zipReader,
                    closed |-> lastDoc.closed]
    /\ UNCHANGED <<file, relVars, tblVars, hdrVars>>

DocStepArg(h, ps, ts, ss, be, bytes, op, err, arg) ==
    DocReturn(h, ps, ts, ss, be, bytes, op, err, arg, <<>>, FALSE)

\* make([]*TableRow, rows), make([]*TableCell, cols) and make([]int, cols) of
\* NewTable panic when the length is negative
NewTablePanics(rows, cols) == rows < 0 \/ cols < 0

\* an operation called with the pointer arg that panics in NewTable(rows, cols),
\* before it has changed anything
Panicked(op, arg, rows, cols) ==
    DocReturn(heap, paragraphs, tables, sections, bodyElements, data, op, FALSE,
              arg, <<rows, cols>>, TRUE)

DocStep(h, ps, ts, ss, be, bytes, op, err) ==
    DocStepArg(h, ps, ts, ss, be, bytes, op, err, 0)

\* "return fmt.Errorf(...)" of an operation called with the pointer arg, before
\* it has changed anything
FailedArg(op, arg) ==
    DocStepArg(heap, paragraphs, tables, sections, bodyElements, data, op, TRUE, arg)

Failed(op) == FailedArg(op, 0)

RECURSIVE AddRuns(_, _)
AddRuns(p, texts) ==
    IF texts = <<>> THEN p ELSE AddRuns(ParagraphAddRun(p, Head(texts)), Tail(texts))

\* Document.AddParagraph(text...) = DocumentPart.AddParagraph
DoAddParagraph ==
    \E texts \in TextArgs :
        LET h == [heap EXCEPT !.p = Append(@, AddRuns(NewParagraph, texts))]
            ps == Append(paragraphs, Len(h.p))
            be == Append(bodyElements, documentElement("paragraph", Len(h.p)))
        IN /\ Len(bodyElements) < MaxBody
           /\ DocStep(h, ps, tables, sections, be,
                      updateXMLData(PartOf(h, ps, tables, sections, be)),
                      "AddParagraph", FALSE)

\* Paragraph.AddRun(text) on a paragraph of the document
DoAddRun ==
    \E j \in 1..Len(paragraphs), text \in Texts :
        /\ Len(heap.p[paragraphs[j]].runs) < MaxRuns
        /\ DocStep([heap EXCEPT !.p[paragraphs[j]] = ParagraphAddRun(@, text)],
                   paragraphs, tables, sections, bodyElements, data, "AddRun", FALSE)

\* the runs of the paragraphs of the document: paragraph j of the list, run r
Runs == {jr \in (1..MaxBody) \X (1..MaxRuns) :
            /\ jr[1] <= Len(paragraphs)
            /\ jr[2] <= Len(heap.p[paragraphs[jr[1]]].runs)}

\* a setter of a run that stores value in one field of the run
RunSet(jr, field, value, op) ==
    DocStep([heap EXCEPT !.p[paragraphs[jr[1]]].runs[jr[2]][field] = value],
            paragraphs, tables, sections, bodyElements, data, op, FALSE)

\* Run.SetBold(bold) on a run of a paragraph of the document
DoSetBold == \E jr \in Runs, bold \in BOOLEAN : RunSet(jr, "bold", bold, "SetBold")

\* Run.SetItalic(italic)
DoSetItalic == \E jr \in Runs, italic \in BOOLEAN : RunSet(jr, "italic", italic, "SetItalic")

\* Run.SetStrikethrough(strike)
DoSetStrikethrough ==
    \E jr \in Runs, strike \in BOOLEAN : RunSet(jr, "strike", strike, "SetStrikethrough")

\* Document.AddTable(rows, cols) = DocumentPart.AddTable
DoAddTable ==
    \E rows \in (0 - NegDims)..MaxRows, cols \in (0 - NegDims)..MaxCols :
        LET h == [heap EXCEPT !.t = Append(@, NewTable(rows, cols))]
            ts == Append(tables, Len(h.t))
            be == Append(bodyElements, documentElement("table", Len(h.t)))
        IN /\ Len(bodyElements) < MaxBody
           /\ IF NewTablePanics(rows, cols) THEN Panicked("AddTable", 0, rows, cols)
              ELSE DocReturn(h, paragraphs, ts, sections, be,
                             updateXMLData(PartOf(h, paragraphs, ts, sections, be)),
                             "AddTable", FALSE, 0, <<rows, cols>>, FALSE)

\* TableCell.SetText(text) on a cell of a table of the document
DoCellSetText ==
    \E j \in 1..Len(tables), text \in Texts :
        \E r \in 1..Len(heap.t[tables[j]].rows) :
            \E c \in 1..Len(heap.t[tables[j]].rows[r]) :
                DocStep([heap EXCEPT !.t[tables[j]].rows[r][c] = CellSetText(@, text)],
                        paragraphs, tables, sections, bodyElements, data,
                        "CellSetText", FALSE)

\* TableCell.SetWidth(width) on a cell of a table of the document
DoCellSetWidth ==
    \E j \in 1..Len(tables), width \in CellWidths :
        \E r \in 1..Len(heap.t[tables[j]].rows) :
            \E c \in 1..Len(heap.t[tables[j]].rows[r]) :
                DocStep([heap EXCEPT !.t[tables[j]].rows[r][c] = CellSetWidth(@, width)],
                        paragraphs, tables, sections, bodyElements, data,
                        "CellSetWidth", FALSE)

\* Table.SetColumnWidths(widths...) on a table of the document
DoSetColumnWidths ==
    \E j \in 1..Len(tables), widths \in ColumnWidthArgs :
        DocStep([heap EXCEPT !.t[tables[j]] = SetColumnWidths(@, widths)],
                paragraphs, tables, sections, bodyElements, data,
                "SetColumnWidths", FALSE)

\* Document.AddSection(startType) = DocumentPart.AddSection
DoAddSection ==
    \E startType \in StartTypes :
        LET h == [heap EXCEPT !.s = Append(@, NewSection(startType))]
            ss == Append(sections, Len(h.s))
        IN /\ Len(sections) < MaxBody
           /\ DocStep(h, paragraphs, tables, ss, bodyElements,
                      updateXMLData(PartOf(h, paragraphs, tables, ss, bodyElements)),
                      "AddSection", FALSE)

\* Section.SetMargins(top, right, bottom, left) on a section of the document
DoSetMargins ==
    \E j \in 1..Len(sections), m \in MarginArgs :
        DocStep([heap EXCEPT !.s[sections[j]] = SetMargins(@, m[1], m[2], m[3], m[4])],
                paragraphs, tables, sections, bodyElements, data, "SetMargins", FALSE)

\* InsertTableAfterParagraph as it would be if the table were created and put
\* into dp.tables before the paragraph is looked up
DoInsertTableAfterParagraphAppendFirst ==
    \E paragraph \in 0..Len(heap.p), rows \in 1..MaxRows, cols \in 1..MaxCols :
        LET inBody == \E j \in 1..Len(bodyElements) :
                          bodyElements[j] = documentElement("paragraph", paragraph)
            paragraphIndex == CHOOSE j \in 1..Len(bodyElements) :
                                  bodyElements[j] = documentElement("paragraph", paragraph)
            h == [heap EXCEPT !.t = Append(@, NewTable(rows, cols))]
            be == InsertAt(bodyElements, paragraphIndex, documentElement("table", Len(h.t)))
            ts == Append(tables, Len(h.t))
        IN /\ Len(bodyElements) < MaxBody
           /\ IF paragraph = 0 \/ ~inBody
              THEN DocStepArg(h, paragraphs, ts, sections, bodyElements, data,
                              "InsertTableAfterParagraph", TRUE, paragraph)
              ELSE DocStepArg(h, paragraphs, ts, sections, be,
                              updateXMLData(PartOf(h, paragraphs, ts, sections, be)),
                              "InsertTableAfterParagraph", FALSE, paragraph)

\* DocumentPart.InsertTableAfterParagraph(paragraph, rows, cols)
DoInsertTableAfterParagraph ==
    \E paragraph \in 0..Len(heap.p), rows \in (0 - NegDims)..MaxRows, cols \in (0 - NegDims)..MaxCols :
        LET inBody == \E j \in 1..Len(bodyElements) :
                          bodyElements[j] = documentElement("paragraph", paragraph)
            paragraphIndex == CHOOSE j \in 1..Len(bodyElements) :
                                  bodyElements[j] = documentElement("paragraph", paragraph)
            h == [heap EXCEPT !.t = Append(@, NewTable(rows, cols))]
            be == InsertAt(bodyElements, paragraphIndex, documentElement("table", Len(h.t)))
            ts == Append(tables, Len(h.t))
        IN IF paragraph = 0 \/ ~inBody
           THEN DocReturn(heap, paragraphs, tables, sections, bodyElements, data,
                          "InsertTableAfterParagraph", TRUE, paragraph,
                          <<rows, cols>>, FALSE)
           ELSE /\ Len(bodyElements) < MaxBody
                /\ IF NewTablePanics(rows, cols)
                   THEN Panicked("InsertTableAfterParagraph", paragraph, rows, cols)
                   ELSE DocReturn(h, paragraphs, ts, sections, be,
                                  updateXMLData(PartOf(h, paragraphs, ts, sections, be)),
                                  "InsertTableAfterParagraph", FALSE, paragraph,
                                  <<rows, cols>>, FALSE)

\* the body without its first element that is the object id of the given kind
WithoutElement(be, kind, id) ==
    IF \E j \in 1..Len(be) : be[j] = documentElement(kind, id)
    THEN RemoveAt(be, CHOOSE j \in 1..Len(be) :
                          /\ be[j] = documentElement(kind, id)
                          /\ \A h \in 1..(j - 1) : be[h] # documentElement(kind, id))
    ELSE be

\* DocumentPart.RemoveParagraph(paragraph)
DoRemoveParagraph ==
    \E paragraph \in 0..Len(heap.p) :
        IF paragraph = 0 \/ ~Contains(paragraphs, paragraph) THEN FailedArg("RemoveParagraph", paragraph)
        ELSE LET ps == RemoveAt(paragraphs, IndexOf(paragraphs, paragraph))
                 be == WithoutElement(bodyElements, "paragraph", paragraph)
             IN DocStepArg(heap, ps, tables, sections, be,
                        updateXMLData(PartOf(heap, ps, tables, sections, be)),
                        "RemoveParagraph", FALSE, paragraph)

\* DocumentPart.RemoveTable(table)
DoRemoveTable ==
    \E table \in 0..Len(heap.t) :
        IF table = 0 \/ ~Contains(tables, table) THEN FailedArg("RemoveTable", table)
        ELSE LET ts == RemoveAt(tables, IndexOf(tables, table))
                 be == WithoutElement(bodyElements, "table", table)
             IN DocStepArg(heap, paragraphs, ts, sections, be,
                        updateXMLData(PartOf(heap, paragraphs, ts, sections, be)),
                        "RemoveTable", FALSE, table)

\* DocumentPart.RemoveSection(section)
DoRemoveSection ==
    \E section \in 0..Len(heap.s) :
        IF section = 0 \/ ~Contains(sections, section) THEN FailedArg("RemoveSection", section)
        ELSE LET ss == RemoveAt(sections, IndexOf(sections, section))
                 be == WithoutElement(bodyElements, "section", section)
             IN DocStepArg(heap, paragraphs, tables, ss, be,
                        updateXMLData(PartOf(heap, paragraphs, tables, ss, be)),
                        "RemoveSection", FALSE, section)

StyleTitle == <<"T", "i", "t", "l", "e">>
StyleHeading(level) == <<"H", "e", "a", "d", "i", "n", "g", " ">> \o Itoa(level)

\* Document.AddHeading(text, level): AddParagraph(text), which regenerates the
\* bytes, and then SetStyle on the paragraph it returned
DoAddHeading ==
    \E text \in Texts, level \in HeadingLevels :
        LET style == IF level = 0 THEN StyleTitle ELSE StyleHeading(level)
            added == [heap EXCEPT !.p = Append(@, AddRuns(NewParagraph, <<text>>))]
            ps == Append(paragraphs, Len(added.p))
            be == Append(bodyElements, documentElement("paragraph", Len(added.p)))
        IN IF level < 0 \/ level > 9 THEN Failed("AddHeading")
           ELSE /\ Len(bodyElements) < MaxBody
                /\ DocStep([added EXCEPT !.p[Len(added.p)].style = style],
                           ps, tables, sections, be,
                           updateXMLData(PartOf(added, ps, tables, sections, be)),
                           "AddHeading", FALSE)

\* Document.AddPageBreak: AddParagraph(), which regenerates the bytes, and then
\* AddRun("") and AddBreak(BreakTypePage) on what it returned
DoAddPageBreak ==
    LET added == [heap EXCEPT !.p = Append(@, NewParagraph)]
        ps == Append(paragraphs, Len(added.p))
        be == Append(bodyElements, documentElement("paragraph", Len(added.p)))
    IN /\ Len(bodyElements) < MaxBody
       /\ DocStep([added EXCEPT !.p[Len(added.p)].runs =
                      <<AddBreak(NewRun(<<>>), BreakTypePage)>>],
                  ps, tables, sections, be,
                  updateXMLData(PartOf(added, ps, tables, sections, be)),
                  "AddPageBreak", FALSE)

\* Document.SaveAs(path): updateXMLData, then Package.SaveAs writes every part
DoSaveAs ==
    /\ lastDoc.n < MaxSteps /\ ~lastDoc.panic
    /\ data' = updateXMLData(Part)
    /\ file' = <<data'>>
    /\ lastDoc' = [op |-> "SaveAs", err |-> FALSE, n |-> lastDoc.n + 1,
                    ops |-> lastDoc.ops \cup {"SaveAs"}, arg |-> 0,
                    dims |-> <<>>, panic |-> FALSE, zipReader |-> lastDoc.zipReader,
                    closed |-> lastDoc.closed]
    /\ UNCHANGED <<heap, paragraphs, tables, sections, bodyElements, relVars, tblVars, hdrVars>>

\* OpenDocument(path) of the file that SaveAs wrote: OpenPackage reads the part
\* and MainDocumentPart loads it, dropping the error of loadFromXML
DoOpenDocument ==
    /\ lastDoc.n < MaxSteps /\ ~lastDoc.panic
    /\ file # <<>>
    /\ \E dp \in {loadFromXML(file[1])} :
          /\ heap' = [p |-> dp.paragraphs, t |-> dp.tables, s |-> dp.sections]
          /\ paragraphs' = [j \in 1..Len(dp.paragraphs) |-> j]
          /\ tables' = [j \in 1..Len(dp.tables) |-> j]
          /\ sections' = [j \in 1..Len(dp.sections) |-> j]
          /\ bodyElements' = dp.bodyElements
    /\ data' = file[1]
    /\ lastDoc' = [op |-> "OpenDocument", err |-> FALSE, n |-> lastDoc.n + 1,
                    ops |-> lastDoc.ops \cup {"OpenDocument"}, arg |-> 0,
                    dims |-> <<>>, panic |-> FALSE, zipReader |-> "open",
                    closed |-> FALSE]
    /\ UNCHANGED <<file, relVars, tblVars, hdrVars>>

\* OpenDocument(path) of a file whose word/document.xml is what SaveAs wrote, cut
\* off after its first cut tokens
DoOpenTruncatedDocument ==
    /\ lastDoc.n < MaxSteps /\ ~lastDoc.panic
    /\ file # <<>>
    /\ \E cut \in 1..(Len(file[1]) - 1) :
          /\ \E dp \in {loadFromXML(SubSeq(file[1], 1, cut))} :
                /\ heap' = [p |-> dp.paragraphs, t |-> dp.tables, s |-> dp.sections]
                /\ paragraphs' = [j \in 1..Len(dp.paragraphs) |-> j]
                /\ tables' = [j \in 1..Len(dp.tables) |-> j]
                /\ sections' = [j \in 1..Len(dp.sections) |-> j]
                /\ bodyElements' = dp.bodyElements
          /\ data' = SubSeq(file[1], 1, cut)
    /\ lastDoc' = [op |-> "OpenDocument", err |-> FALSE, n |-> lastDoc.n + 1,
                    ops |-> lastDoc.ops \cup {"OpenDocument"}, arg |-> 0,
                    dims |-> <<>>, panic |-> FALSE, zipReader |-> "open",
                    closed |-> FALSE]
    /\ UNCHANGED <<file, relVars, tblVars, hdrVars>>

\* Document.Close = Package.Close: closes the archive that OpenPackage opened,
\* if there is one; os.File.Close returns an error when it is called again
DoClose ==
    /\ lastDoc.n < MaxSteps /\ ~lastDoc.panic
    /\ lastDoc' = [op |-> "Close", err |-> lastDoc.zipReader = "closed",
                    n |-> lastDoc.n + 1, ops |-> lastDoc.ops \cup {"Close"}, arg |-> 0,
                    dims |-> <<>>, panic |-> FALSE,
                    zipReader |-> IF lastDoc.zipReader = "nil" THEN "nil" ELSE "closed",
                    closed |-> TRUE]
    /\ UNCHANGED <<heap, paragraphs, tables, sections, bodyElements, data, file,
                   relVars, tblVars, hdrVars>>

NextDoc ==
    \/ DoAddParagraph
    \/ DoAddRun
    \/ DoSetBold
    \/ DoSetItalic
    \/ DoSetStrikethrough
    \/ DoAddTable
    \/ DoCellSetText
    \/ DoCellSetWidth
    \/ DoSetColumnWidths
    \/ DoAddSection
    \/ DoSetMargins
    \/ DoInsertTableAfterParagraph
    \/ DoRemoveParagraph
    \/ DoRemoveTable
    \/ DoRemoveSection
    \/ DoAddHeading
    \/ DoAddPageBreak
    \/ DoSaveAs
    \/ DoOpenDocument
    \/ DoOpenTruncatedDocument
    \/ DoClose

SpecDoc == InitDoc /\ [][NextDoc]_vars

----------------------------------------------------------------------------
(* Loading a document part that another program wrote: the bodies that the  *)
(* part may hold, and DocumentPart.loadFromXML on them.                      *)

Header1Target == <<"h", "e", "a", "d", "e", "r", "1">> \o DotXML
Footer1Target == <<"f", "o", "o", "t", "e", "r", "1">> \o DotXML
AnchorM == <<"m">>
AnchorN == <<"n">>

\* word/_rels/document.xml.rels of the package: an external hyperlink, a header
\* and a footer whose parts exist, and a header whose part does not
ParseDocRels ==
    <<Relationship(RelID(1), RelTypeHyperlink, UrlA, "External"),
      Relationship(RelID(2), RelTypeHeader, Header1Target, ""),
      Relationship(RelID(3), RelTypeFooter, Footer1Target, "")>>

ParseParts == {DocumentURI, WordDir \o Header1Target, WordDir \o Footer1Target}

\* a relationship ID that no relationship of the package has
UnknownRelID == RelID(9)

TextElement(text) == Element("t", <<>>, <<CharData(text)>>)
RunElement(text) == Element("r", <<>>, TextElement(text))
ParagraphElement(content) == Element("p", <<>>, content)
PageElements ==
    EmptyElement("pgSz", <<Attr("w", Itoa(11906)), Attr("h", Itoa(16838))>>)

\* the value attribute of an on/off element: none, or one with this value
OnOffValues ==
    {<<>>, <<"0">>, <<"f", "a", "l", "s", "e">>, <<"o", "f", "f">>, <<"1">>,
     <<"O", "F", "F">>, <<"y", "e", "s">>}

OnOffAttrs(v) == IF v = <<>> THEN <<>> ELSE <<Attr("val", v)>>

\* a paragraph of one run whose properties hold the toggle element name
ToggleParagraph(name, v) ==
    ParagraphElement(Element("r", <<>>,
        Element("rPr", <<>>, EmptyElement(name, OnOffAttrs(v))) \o TextElement(<<"a">>)))

\* a paragraph of one run whose properties hold the keep setting name
KeepParagraph(name, v) ==
    ParagraphElement(Element("pPr", <<>>, EmptyElement(name, OnOffAttrs(v)))
                     \o RunElement(<<"a">>))

\* the attributes of a hyperlink wrapper: an anchor, the ID of an external
\* relationship, an ID of no relationship, the ID of an internal relationship,
\* an ID together with an anchor
LinkAttrs ==
    {<<Attr("anchor", AnchorM)>>, <<Attr("anchor", AnchorN)>>,
     <<Attr("id", RelID(1))>>, <<Attr("id", UnknownRelID)>>, <<Attr("id", RelID(2))>>,
     <<Attr("id", RelID(1)), Attr("anchor", AnchorM)>>, <<>>}

Hyperlink(attrs, content) == Element("hyperlink", attrs, content)

\* paragraphs with runs before, inside and after a wrapper, and with a wrapper
\* inside a wrapper
HyperlinkParagraphs ==
    {ParagraphElement(RunElement(<<"a">>) \o Hyperlink(a, RunElement(<<"b">>))
                      \o RunElement(<<"c">>)) : a \in LinkAttrs}
    \cup {ParagraphElement(Hyperlink(a, RunElement(<<"a">>) \o RunElement(<<"b">>)))
          : a \in LinkAttrs}
    \cup {ParagraphElement(Hyperlink(a, RunElement(<<"a">>))
                           \o Hyperlink(b, RunElement(<<"b">>)))
          : a \in LinkAttrs, b \in {<<Attr("anchor", AnchorN)>>, <<>>}}
    \cup {ParagraphElement(Hyperlink(a, Hyperlink(b, RunElement(<<"a">>))
                                         \o RunElement(<<"b">>)))
          : a \in {<<Attr("anchor", AnchorM)>>, <<Attr("id", RelID(1))>>},
            b \in {<<Attr("anchor", AnchorN)>>}}

\* a section with a header or footer reference of the relationship relID
ReferenceSection(name, relID) ==
    Element("sectPr", <<>>,
        EmptyElement(name, <<Attr("type", HeaderTypeDefault), Attr("id", relID)>>)
        \o PageElements)

ReferenceSections ==
    {ReferenceSection(name, relID) :
        name \in {"headerReference", "footerReference"},
        relID \in {RelID(2), RelID(3), UnknownRelID}}

\* elements that no switch of the parser names, under the body, in a paragraph,
\* in the properties of a run, in a table, in a cell and in a section
SdtElement(content) == Element("sdt", <<>>, Element("sdtContent", <<>>, content))

TableElement(content) ==
    Element("tbl", <<>>, Element("tr", <<>>, Element("tc", <<>>, content)))

UnknownElementBodies ==
    {SdtElement(ParagraphElement(RunElement(<<"a">>))),
     SdtElement(TableElement(ParagraphElement(RunElement(<<"a">>)))),
     SdtElement(<<>>),
     EmptyElement("bookmarkStart", <<Attr("id", <<"0">>)>>),
     ParagraphElement(Element("smartTag", <<>>, RunElement(<<"a">>)) \o RunElement(<<"b">>)),
     ParagraphElement(SdtElement(RunElement(<<"a">>))),
     ParagraphElement(Element("r", <<>>,
         Element("rPr", <<>>,
             Element("rPrChange", <<>>, Element("rPr", <<>>, EmptyElement("b", <<>>))))
         \o TextElement(<<"a">>))),
     TableElement(SdtElement(ParagraphElement(RunElement(<<"a">>)))
                  \o ParagraphElement(RunElement(<<"b">>))),
     Element("tbl", <<>>, SdtElement(Element("tr", <<>>, Element("tc", <<>>,
                                         ParagraphElement(RunElement(<<"a">>)))))),
     Element("sectPr", <<>>,
         Element("pgBorders", <<>>, EmptyElement("top", <<>>)) \o PageElements)}

\* a paragraph that ends a section whose header reference is of relID
SectionBreakParagraph(relID) ==
    ParagraphElement(Element("pPr", <<>>, ReferenceSection("headerReference", relID))
                     \o RunElement(<<"a">>))

\* the children of a body of one element
SingleBlocks ==
    {ToggleParagraph(name, v) : name \in RunToggleNames, v \in OnOffValues}
    \cup {KeepParagraph(name, v) : name \in KeepNames, v \in OnOffValues}
    \cup HyperlinkParagraphs \cup ReferenceSections \cup UnknownElementBodies

\* the children of a body of two elements
PairBlocks ==
    {ParagraphElement(RunElement(<<"a">>)),
     ParagraphElement(Hyperlink(<<Attr("id", UnknownRelID)>>, RunElement(<<"a">>))),
     SectionBreakParagraph(RelID(2)),
     SectionBreakParagraph(UnknownRelID),
     TableElement(ParagraphElement(RunElement(<<"a">>))),
     SdtElement(ParagraphElement(RunElement(<<"b">>))),
     ReferenceSection("footerReference", UnknownRelID),
     ReferenceSection("headerReference", RelID(2))}

\* the width and span of the cells of a table without a grid: no tcW, which
\* leaves the 1440 of a new cell, the width 0, widths that their span does not
\* divide, and a width less than its span
CellKinds ==
    {[w |-> <<>>, span |-> 1], [w |-> <<0>>, span |-> 1], [w |-> <<721>>, span |-> 1],
     [w |-> <<2881>>, span |-> 2], [w |-> <<1>>, span |-> 2], [w |-> <<1000>>, span |-> 3]}

CellElement(c) ==
    Element("tc", <<>>,
        Element("tcPr", <<>>,
            (IF c.w # <<>>
             THEN EmptyElement("tcW", <<Attr("w", Itoa(c.w[1])),
                                        Attr("type", <<"d", "x", "a">>)>>)
             ELSE <<>>)
            \o (IF c.span > 1 THEN EmptyElement("gridSpan", <<Attr("val", Itoa(c.span))>>)
                ELSE <<>>))
        \o ParagraphElement(<<>>))

\* the rows of one cell and of two cells
RowElements ==
    {Element("tr", <<>>, CellElement(a)) : a \in CellKinds}
    \cup {Element("tr", <<>>, CellElement(a) \o CellElement(b))
          : a \in CellKinds, b \in CellKinds}

\* the tables of one row and of two rows, without tblGrid
GridlessTables ==
    {Element("tbl", <<>>, r) : r \in RowElements}
    \cup {Element("tbl", <<>>, q \o r) : q \in RowElements, r \in RowElements}

DocumentElement(content) ==
    Element("document", <<>>, Element("body", <<>>, content))

ParseInputs ==
    {DocumentElement(b) : b \in SingleBlocks \cup GridlessTables}
    \cup {DocumentElement(a \o b) : a \in PairBlocks, b \in PairBlocks}

\* OpenPackage of a file: the relationships and parts it holds, and the Data of
\* its document part, which loadFromXML has not read yet
InitParse ==
    /\ IdleTbl /\ IdleHdr
    /\ \E rels \in {ParseDocRels, <<>>} :
          relations = [NoRelations EXCEPT ![DocumentURI] = rels]
    /\ parts = ParseParts
    /\ everIDs = [o \in Owners |-> IDsOf(relations[o])]
    /\ lastEnsure = NoEnsure
    /\ docPart = <<DocumentURI>>
    /\ contentTypes = {} /\ archive = <<>>
    /\ Loaded(EmptyPart)
    /\ data \in ParseInputs
    /\ file = <<>>
    /\ lastDoc = NoDocOp

\* DocumentPart.loadFromXML on the Data of the part; err is what it returns
DoLoadFromXML ==
    /\ lastDoc.op = "none"
    /\ \E dp \in {loadFromXML(data)} :
          /\ heap' = [p |-> dp.paragraphs, t |-> dp.tables, s |-> dp.sections]
          /\ paragraphs' = [j \in 1..Len(dp.paragraphs) |-> j]
          /\ tables' = [j \in 1..Len(dp.tables) |-> j]
          /\ sections' = [j \in 1..Len(dp.sections) |-> j]
          /\ bodyElements' = dp.bodyElements
          /\ lastDoc' = [NoDocOp EXCEPT !.op = "loadFromXML", !.err = dp.err, !.n = 1,
                                         !.ops = {"loadFromXML"}]
    /\ UNCHANGED <<data, file, relVars, tblVars, hdrVars>>

NextParse == DoLoadFromXML

SpecParse == InitParse /\ [][NextParse]_vars

----------------------------------------------------------------------------
(* Claims about the merge operations, checked under SpecTbl *)

MergeRowInRange == lastMerge.a >= 0 /\ lastMerge.a < Len(lastMerge.before)

MergeRowLen == IF MergeRowInRange THEN Len(lastMerge.before[lastMerge.a + 1]) ELSE 0

VMergeOf(rows) == [i \in 1..Len(rows) |-> [j \in 1..Len(rows[i]) |-> rows[i][j].verticalMerge]]

\* C8: when MergeCellsVertically returns an error, no cell of any row has had
\* its vertical-merge state changed.
C8_VerticalErrorLeavesRowsUntouched ==
    (lastMerge.op = "V" /\ lastMerge.err) => VMergeOf(tbl.rows) = VMergeOf(lastMerge.before)

\* C9: MergeCellsHorizontally(row, start, end) succeeds and leaves the row as it
\* was when start = end (both in range), and returns an error and leaves the row
\* as it was when end < start or when the row index, start or end is out of range.
C9_HorizontalMergeValidation ==
    lastMerge.op = "H" =>
        /\ (MergeRowInRange /\ lastMerge.b = lastMerge.c
               /\ lastMerge.b >= 0 /\ lastMerge.b < MergeRowLen)
              => (~lastMerge.err /\ tbl.rows = lastMerge.before)
        /\ (\/ lastMerge.c < lastMerge.b
            \/ ~MergeRowInRange
            \/ lastMerge.b < 0 \/ lastMerge.b >= MergeRowLen
            \/ lastMerge.c < 0 \/ lastMerge.c >= MergeRowLen)
              => (lastMerge.err /\ tbl.rows = lastMerge.before)

\* a horizontal merge with start = end on a row that an earlier merge shortened
C9_Witness ==
    /\ lastMerge.op = "H" /\ lastMerge.b = lastMerge.c /\ ~lastMerge.err
    /\ \E j \in 1..MergeRowLen : lastMerge.before[lastMerge.a + 1][j].gridSpan > 1

\* C10: a successful MergeCellsVertically(col, startRow, endRow) leaves the cell
\* at col of startRow "restart", the cell at col of every later row of the span
\* "continue", and every other cell (and every other field) as it was.
C10_VerticalMergeMarksSpan ==
    (lastMerge.op = "V" /\ ~lastMerge.err) =>
        /\ Len(tbl.rows) = Len(lastMerge.before)
        /\ \A i \in 1..Len(tbl.rows) :
             /\ Len(tbl.rows[i]) = Len(lastMerge.before[i])
             /\ \A j \in 1..Len(tbl.rows[i]) :
                  tbl.rows[i][j] =
                    IF j = lastMerge.a + 1 /\ i - 1 >= lastMerge.b /\ i - 1 <= lastMerge.c
                    THEN [lastMerge.before[i][j] EXCEPT !.verticalMerge =
                            IF i - 1 = lastMerge.b THEN TableVerticalMergeRestart
                            ELSE TableVerticalMergeContinue]
                    ELSE lastMerge.before[i][j]

\* a successful vertical merge over more than one row, re-marking a merged cell
C10_Witness ==
    /\ lastMerge.op = "V" /\ ~lastMerge.err /\ lastMerge.c > lastMerge.b
    /\ tbl.rows[lastMerge.c + 1][lastMerge.a + 1].verticalMerge = TableVerticalMergeContinue
    /\ lastMerge.before[lastMerge.c + 1][lastMerge.a + 1].verticalMerge
         = TableVerticalMergeRestart

----------------------------------------------------------------------------
(* Claims about relationship IDs, checked under SpecRel *)

EnsureMatches(rel) ==
    /\ rel.Type = lastEnsure.type /\ rel.Target = lastEnsure.target
    /\ rel.TargetMode = lastEnsure.mode

\* C4: for every owning part, no two relationships of its list share an ID.
C4_RelationshipIDsUnique ==
    \A o \in Owners : \A i, j \in 1..Len(relations[o]) :
        i # j => relations[o][i].ID # relations[o][j].ID

C6_EnsureReusesExisting ==
    lastEnsure.called =>
        /\ (\E i \in 1..Len(lastEnsure.before) : EnsureMatches(lastEnsure.before[i]))
              => /\ relations[lastEnsure.owner] = lastEnsure.before
                 /\ ~lastEnsure.allocated
                 /\ \E i \in 1..Len(lastEnsure.before) :
                       /\ EnsureMatches(lastEnsure.before[i])
                       /\ lastEnsure.before[i].ID = lastEnsure.id
        /\ ensureRelationshipWithMode(relations, lastEnsure.owner, lastEnsure.type,
                                      lastEnsure.target, lastEnsure.mode).rel = relations

\* the hyperlink relationship of a URL is ensured when the owner already has it
C6_Witness ==
    /\ lastEnsure.called /\ ~lastEnsure.allocated
    /\ lastEnsure.type = RelTypeHyperlink /\ lastEnsure.mode = "External"
    /\ relations[lastEnsure.owner] = lastEnsure.before

----------------------------------------------------------------------------
(* Claims about saving and reloading a document, checked under SpecDoc *)

\* parse(serialize(tree)): the part that loadFromXML builds from the bytes that
\* updateXMLData writes for dp
Reload(dp) == loadFromXML(updateXMLData(dp))

RunToggles(run) == <<run.bold, run.italic, run.strike>>

ParagraphView(p) ==
    [text |-> ParagraphText(p),
     toggles |-> [j \in 1..Len(p.runs) |-> RunToggles(p.runs[j])]]

TableView(t) ==
    [r \in 1..Len(t.rows) |->
        [c \in 1..Len(t.rows[r]) |->
            [text |-> CellText(t.rows[r][c]), width |-> t.rows[r][c].width]]]

SectionMargins(s) == <<s.marginTop, s.marginRight, s.marginBottom, s.marginLeft>>

\* what Paragraphs(), Tables() and Sections() of a part show of its content
View(dp) ==
    [paragraphs |-> [j \in 1..Len(dp.paragraphs) |-> ParagraphView(dp.paragraphs[j])],
     tables |-> [j \in 1..Len(dp.tables) |-> TableView(dp.tables[j])],
     sections |-> [j \in 1..Len(dp.sections) |-> SectionMargins(dp.sections[j])]]

Kinds(be) == [j \in 1..Len(be) |-> be[j].kind]

SectionBreaks(be) == Cardinality({j \in 1..Len(be) : be[j].kind = "section"})

C1Ops == {"AddParagraph", "AddRun", "SetBold", "SetItalic", "SetStrikethrough",
          "AddTable", "CellSetText", "CellSetWidth", "AddSection", "SetMargins"}

C2Ops == {"AddParagraph", "AddTable", "AddSection", "InsertTableAfterParagraph",
          "RemoveParagraph", "RemoveTable", "RemoveSection"}

\* C1: a document built by add paragraph/run, run toggles, add table, cell
\* text/width, add section and set margins reloads, after saving, with the
\* paragraph texts, run toggles, cell texts and widths and section margins of
\* the tree that was saved.
C1_SaveReloadPreservesContent ==
    lastDoc.ops \subseteq C1Ops => View(Reload(Part)) = View(Part)

\* C2: after add-paragraph, add-table, add-section, insert-table-after-paragraph
\* and remove operations, the body elements of the reloaded document are, in
\* kind and order, those of the tree that was saved, a section break for each
\* section of the tree.
C2_ReloadPreservesBodyOrder ==
    lastDoc.ops \subseteq C2Ops =>
        /\ Kinds(Reload(Part).bodyElements) = Kinds(Part.bodyElements)
        /\ SectionBreaks(Reload(Part).bodyElements) = Len(Part.sections)

\* C3: the model that a first save and reload yields is the model that a second
\* save and reload of it yields.
C3_SecondReloadChangesNothing ==
    Reload(Reload(Part)) = Reload(Part)

\* C7: when a mutating operation has returned, the bytes stored in the part are
\* the serialization of the current tree.
C7_BytesFollowEveryMutation ==
    (lastDoc.op \notin {"none", "OpenDocument", "Close"} /\ ~lastDoc.err) =>
        data = updateXMLData(Part)

----------------------------------------------------------------------------
(* Claims about the errors of the document operations, checked under SpecDoc *)

PointerOps == {"InsertTableAfterParagraph", "RemoveParagraph", "RemoveTable",
               "RemoveSection"}

\* the pointer arg is nil, or is not where the operation op looks for it
InvalidPointer(op, arg) ==
    \/ arg = 0
    \/ op = "InsertTableAfterParagraph"
          /\ ~\E j \in 1..Len(bodyElements) :
                 bodyElements[j] = documentElement("paragraph", arg)
    \/ op = "RemoveParagraph" /\ ~Contains(paragraphs, arg)
    \/ op = "RemoveTable" /\ ~Contains(tables, arg)
    \/ op = "RemoveSection" /\ ~Contains(sections, arg)

\* C11: insert-table-after-paragraph and the remove operations, called with nil
\* or with an object that is not (or no longer) in the document, return an error
\* and leave the lists, the objects, the body order and the bytes as they were.
C11_InvalidPointerRejectedUnchanged ==
    [][(lastDoc'.op \in PointerOps /\ InvalidPointer(lastDoc'.op, lastDoc'.arg)) =>
          /\ lastDoc'.err
          /\ heap' = heap /\ paragraphs' = paragraphs /\ tables' = tables
          /\ sections' = sections /\ bodyElements' = bodyElements /\ data' = data]_vars

\* a table was to be inserted after a paragraph that had been removed
C11_Witness ==
    /\ lastDoc.op = "InsertTableAfterParagraph" /\ lastDoc.err
    /\ lastDoc.arg # 0 /\ "RemoveParagraph" \in lastDoc.ops
    /\ ~Contains(paragraphs, lastDoc.arg)

\* C12: add table and insert table after paragraph, called with a row or column
\* count that is zero or negative, return an error and add no table.
C12_NonPositiveDimensionsRejected ==
    [][(/\ lastDoc'.op \in {"AddTable", "InsertTableAfterParagraph"}
        /\ lastDoc'.dims # <<>>
        /\ (lastDoc'.dims[1] <= 0 \/ lastDoc'.dims[2] <= 0)) =>
          /\ lastDoc'.err /\ ~lastDoc'.panic
          /\ tables' = tables /\ bodyElements' = bodyElements]_vars

\* C13: OpenDocument of a file whose body XML does not parse to its end returns
\* an error.
C13_OpenReportsParseFailure ==
    (lastDoc.op = "OpenDocument" /\ loadFromXML(data).err) => lastDoc.err

----------------------------------------------------------------------------
(* Claims about loading a part that another program wrote *)

\* the number of elements that are open when the token j of toks is read
Depth(toks, j) ==
    Cardinality({h \in 1..(j - 1) : toks[h].k = "S"})
        - Cardinality({h \in 1..(j - 1) : toks[h].k = "E"})

\* the start tokens of the children of the body
BodyChildren(toks) == {j \in 1..Len(toks) : toks[j].k = "S" /\ Depth(toks, j) = 2}

\* loadFromXML has read the Data of the part
Parsed == lastDoc.op = "loadFromXML"

\* the relationship IDs that the hyperlinks and the header and footer references
\* of toks name
ReferenceIDs(toks, names) ==
    {attrValue(toks[j].a, "id") :
        j \in {h \in 1..Len(toks) : toks[h].k = "S" /\ toks[h].n \in names}} \ {<<>>}

Unresolved(ids) == {id \in ids : ~relationshipTarget(id).ok}

\* C14: when the part names a relationship ID that no relationship of the
\* package has, in a hyperlink or in a header or footer reference, loadFromXML
\* returns no error and every paragraph, table and section under the body is
\* in the tree.
C14_UnresolvedReferenceNotFatal ==
    (/\ Parsed
     /\ Unresolved(ReferenceIDs(data, {"hyperlink", "headerReference",
                                       "footerReference"})) # {})
        => /\ ~lastDoc.err
           /\ Len(bodyElements) >=
                  Cardinality({j \in BodyChildren(data) :
                                  data[j].n \in {"p", "tbl", "sectPr"}})

\* the names, among those of the parts that are loaded, that no switch of the
\* parser has a case for
UnknownNames ==
    {"sdt", "sdtContent", "bookmarkStart", "smartTag", "rPrChange", "pgBorders", "top"}

\* the end token of the element that the start token h opens
MatchingEnd(toks, h) ==
    CHOOSE e \in (h + 1)..Len(toks) :
        /\ toks[e].k = "E" /\ Depth(toks, e) = Depth(toks, h) + 1
        /\ \A f \in (h + 1)..(e - 1) :
              ~(toks[f].k = "E" /\ Depth(toks, f) = Depth(toks, h) + 1)

\* the token j lies inside an element with one of these names
Inside(toks, j, names) ==
    \E h \in 1..(j - 1) :
        toks[h].k = "S" /\ toks[h].n \in names /\ MatchingEnd(toks, h) > j

\* the start tokens with this name that are neither inside an element the
\* parser does not recognize nor inside a table, whose paragraphs belong to
\* its cells
Recognized(toks, name) ==
    {j \in 1..Len(toks) :
        /\ toks[j].k = "S" /\ toks[j].n = name
        /\ ~Inside(toks, j, UnknownNames \cup {"tbl"})}

\* the number of runs of the paragraphs of the part
RunCount == SumSeq([j \in 1..Len(paragraphs) |-> Len(heap.p[paragraphs[j]].runs)])

\* C15: when loadFromXML has read a part to its end, the paragraphs, tables and
\* runs of the tree are those of the part that lie in no element the parser does
\* not recognize: nothing nested in such an element, at any level, is added.
C15_UnknownElementsSkippedWhole ==
    (Parsed /\ ~lastDoc.err)
        => /\ Len(paragraphs) = Cardinality(Recognized(data, "p"))
           /\ Len(tables) = Cardinality(Recognized(data, "tbl"))
           /\ RunCount = Cardinality(Recognized(data, "r"))

\* what an on/off element with these attributes says: off when its value is
\* "0", "false" or "off" in any case of the letters, and on otherwise
OnOffValue(attrs) ==
    ToLower(attrValue(attrs, "val"))
        \notin {<<"0">>, <<"f", "a", "l", "s", "e">>, <<"o", "f", "f">>}

\* C16: in a part of one paragraph with one run, every toggle element of the run
\* and every keep setting of the paragraph is parsed to what its value attribute
\* says: true without the attribute, false for "0", "false" and "off", true for
\* any other value.
C16_OnOffElementsFollowValue ==
    (Parsed /\ ~lastDoc.err /\ Len(paragraphs) = 1 /\ RunCount = 1)
        => \A j \in 1..Len(data) :
              (data[j].k = "S" /\ ~Inside(data, j, UnknownNames))
                  => /\ data[j].n \in RunToggleNames
                          => heap.p[paragraphs[1]].runs[1][RunToggleField(data[j].n)]
                                 = OnOffValue(data[j].a)
                     /\ data[j].n \in KeepNames
                          => heap.p[paragraphs[1]][KeepField(data[j].n)]
                                 = <<OnOffValue(data[j].a)>>

\* the k-th least element of a set of token indexes
Nth(S, k) == CHOOSE j \in S : Cardinality({h \in S : h < j}) = k - 1

\* the start tokens of the hyperlink wrappers that are open at the token j
Wrappers(toks, j) ==
    {h \in 1..(j - 1) :
        toks[h].k = "S" /\ toks[h].n = "hyperlink" /\ MatchingEnd(toks, h) > j}

\* the hyperlink that a run carries
RunLink(run) == [url |-> run.hyperlinkURL, anchor |-> run.hyperlinkAnchor]

\* the hyperlink of a wrapper with the start token t: what a run carries that
\* parseParagraph creates directly after t
WrapperLink(t) ==
    RunLink(applyHyperlinkContext(NewRun(<<>>),
                startElement([hyperlinkURL |-> <<>>, hyperlinkAnchor |-> <<>>], t)))

\* the parts of one paragraph all of whose runs are read
OneParagraph ==
    /\ Parsed /\ ~lastDoc.err /\ Len(paragraphs) = 1
    /\ RunCount = Cardinality(Recognized(data, "r"))

\* C17: in a part of one paragraph, a run that starts between the start of a
\* hyperlink wrapper and its matching end carries the hyperlink of the innermost
\* such wrapper, and a run that starts inside no wrapper carries no hyperlink.
C17_RunsCarryWrapperLink ==
    OneParagraph
        => \A k \in 1..RunCount :
              LET j == Nth(Recognized(data, "r"), k)
                  run == heap.p[paragraphs[1]].runs[k]
              IN IF Wrappers(data, j) = {} THEN ~HasHyperlink(run)
                 ELSE RunLink(run)
                          = WrapperLink(data[CHOOSE h \in Wrappers(data, j) :
                                                \A g \in Wrappers(data, j) : g <= h])

----------------------------------------------------------------------------
(* Claims about the formatting of runs *)

\* the formatting fields of a run
Formatting(run) ==
    [f \in {"bold", "italic", "strike", "doubleStrike", "smallCaps", "allCaps",
            "shadow", "outline", "emboss", "imprint", "underline", "size", "color",
            "font", "highlight", "charSpacing", "kern", "baselineShift"} |-> run[f]]

\* every formatting field of the run has the value that NewRun gives it
DefaultFormatting(run) == Formatting(run) = Formatting(NewRun(<<>>))

\* the run jr of the document
RunAt(jr) == heap.p[paragraphs[jr[1]]].runs[jr[2]]

\* the runs that parseParagraph reads from a paragraph that holds the XML of run
Reparsed(run) ==
    parseParagraph(Decode(ParagraphElement(RunToXML(run))), 2).v.runs

\* C18: a run of the document whose formatting fields all have their default
\* values is written without an rPr element, and the paragraph parser reads from
\* what is written one run whose formatting fields all have their default values.
C18_DefaultRunHasNoProperties ==
    \A jr \in Runs :
        DefaultFormatting(RunAt(jr))
            => /\ \A h \in 1..Len(RunToXML(RunAt(jr))) : RunToXML(RunAt(jr))[h].n # "rPr"
               /\ Len(Reparsed(RunAt(jr))) = 1
               /\ DefaultFormatting(Reparsed(RunAt(jr))[1])

\* SetBold has returned, and the document holds a run with text whose formatting
\* is the default next to a run whose formatting is not
C18_Witness ==
    /\ lastDoc.op = "SetBold"
    /\ \E jr \in Runs : DefaultFormatting(RunAt(jr)) /\ RunAt(jr).text # <<>>
    /\ \E jr \in Runs : ~DefaultFormatting(RunAt(jr))

----------------------------------------------------------------------------
(* Claims about the column widths of a table without a grid *)

\* the column, counted from 0, at which the cell k of a row starts
StartCol(cells, k) == SumSeq([h \in 1..(k - 1) |-> GridSpan(cells[h])])

\* the share of its width that a cell gives to the column at this offset of its
\* span: the width divided by the span, and one more for the leading columns
\* up to the remainder of the division
Share(cell, offset) ==
    IF cell.width <= 0 THEN 0
    ELSE (cell.width \div GridSpan(cell))
             + (IF offset < cell.width % GridSpan(cell) THEN 1 ELSE 0)

\* the share that the row gives to column c, and 0 when it gives none
RowShare(cells, c) ==
    IF \E k \in 1..Len(cells) :
           StartCol(cells, k) <= c /\ c < StartCol(cells, k) + GridSpan(cells[k])
    THEN LET k == CHOOSE k \in 1..Len(cells) :
                      StartCol(cells, k) <= c /\ c < StartCol(cells, k) + GridSpan(cells[k])
         IN Share(cells[k], c - StartCol(cells, k))
    ELSE 0

\* the rows that supply a width for column c
Suppliers(t, c) == {r \in 1..Len(t.rows) : RowShare(t.rows[r], c) > 0}

\* the share of the first row that supplies a width for column c, and 0 when no
\* row supplies one
FirstContribution(t, c) ==
    IF Suppliers(t, c) = {} THEN 0
    ELSE RowShare(t.rows[CHOOSE r \in Suppliers(t, c) : \A q \in Suppliers(t, c) : r <= q], c)

\* the tables of the part that have no grid
GridlessTablesOfPart == {j \in 1..Len(tables) : Len(heap.t[tables[j]].grid) = 0}

\* C19: the inferred width of each column of a table without a grid is the
\* share of the first row, from the top, that supplies a width for the column,
\* and 1440 when no row supplies one.
C19_FirstSupplyingRowWins ==
    \A j \in GridlessTablesOfPart :
        LET t == heap.t[tables[j]] IN
        columnWidths(t) =
            [c \in 1..(IF t.gridColumns > 0 THEN t.gridColumns ELSE 0) |->
                IF FirstContribution(t, c - 1) > 0 THEN FirstContribution(t, c - 1)
                ELSE DefaultCellWidth]

\* loadFromXML has read a table of two rows without a grid: the first row gives
\* column 0 no width, and column 1 the larger half of an odd width; the second
\* row gives column 0 its width and would give column 1 another
C19_Witness ==
    /\ Parsed
    /\ \E j \in GridlessTablesOfPart :
          LET t == heap.t[tables[j]] IN
          /\ Len(t.rows) = 2 /\ t.gridColumns = 2
          /\ RowShare(t.rows[1], 0) = 0 /\ RowShare(t.rows[1], 1) = 1441
          /\ RowShare(t.rows[2], 0) = 721 /\ RowShare(t.rows[2], 1) = 1440
          /\ columnWidths(t) = <<721, 1441>>

\* the table that parseTable reads from what Table.ToXML writes for t
ReparsedTable(t) == parseTable(Decode(TableToXML(t)), 2, "tbl").v

\* C20: for every table of the document without a grid, the inferred column
\* widths sum to the sum over the columns of the share of the first row that
\* supplies one, and the widths inferred for the table that is parsed from its
\* serialization are the same widths.
C20_InferredGridRoundTrip ==
    \A j \in GridlessTablesOfPart :
        LET t == heap.t[tables[j]] IN
        /\ SumSeq(columnWidths(t))
               = SumSeq([c \in 1..Len(columnWidths(t)) |-> FirstContribution(t, c - 1)])
        /\ columnWidths(ReparsedTable(t)) = columnWidths(t)

----------------------------------------------------------------------------
(* Claims about the body order, checked under SpecDoc *)

\* the paragraphs and tables of a part in body order, as a reader of the body
\* that ignores the section breaks sees them: the kind of each and what
\* Paragraphs() and Tables() show of its content
BodyOrder(dp) ==
    LET be == dp.bodyElements
        shown == {j \in 1..Len(be) : be[j].kind # "section"}
        nth(k) == CHOOSE j \in shown : Cardinality({h \in shown : h <= j}) = k
    IN [k \in 1..Cardinality(shown) |->
           IF be[nth(k)].kind = "paragraph"
           THEN <<"paragraph", ParagraphView(dp.paragraphs[be[nth(k)].id])>>
           ELSE <<"table", TableView(dp.tables[be[nth(k)].id])>>]

\* the step is a call of InsertTableAfterParagraph that returned a table
InsertedTable ==
    /\ lastDoc'.n = lastDoc.n + 1
    /\ lastDoc'.op = "InsertTableAfterParagraph"
    /\ ~lastDoc'.err /\ ~lastDoc'.panic

\* the index in the body be of the paragraph object id
BodyIndex(be, id) == CHOOSE j \in 1..Len(be) : be[j] = documentElement("paragraph", id)

\* C26: when InsertTableAfterParagraph(p, rows, cols) returns a table, the body
\* holds a new table of rows by cols directly after p, the body without that
\* table is the body as it was, and the paragraphs and tables of the reloaded
\* document are those of the body in the same order.
C26_InsertedTableFollowsParagraph ==
    [][InsertedTable =>
          LET k == BodyIndex(bodyElements', lastDoc'.arg)
              new == bodyElements'[k + 1]
          IN /\ k = BodyIndex(bodyElements, lastDoc'.arg)
             /\ k < Len(bodyElements')
             /\ new.kind = "table"
             /\ ~Contains(tables, new.id) /\ Contains(tables', new.id)
             /\ heap'.t[new.id] = NewTable(lastDoc'.dims[1], lastDoc'.dims[2])
             /\ RemoveAt(bodyElements', k + 1) = bodyElements
             /\ BodyOrder(Reload(PartOf(heap', paragraphs', tables', sections',
                                        bodyElements')))
                    = BodyOrder(PartOf(heap', paragraphs', tables', sections',
                                       bodyElements'))]_vars

\* a table was inserted after a paragraph that another element followed
C26_Witness ==
    /\ lastDoc.op = "InsertTableAfterParagraph" /\ ~lastDoc.err /\ ~lastDoc.panic
    /\ \E k \in 1..(Len(bodyElements) - 2) :
          /\ bodyElements[k] = documentElement("paragraph", lastDoc.arg)
          /\ bodyElements[k + 1].kind = "table"
          /\ bodyElements[k + 2].kind \in {"paragraph", "table"}
    /\ \E j \in 1..Len(bodyElements) : bodyElements[j].kind = "section"

\* the objects of the given kind in the body be, in body order
OfKind(be, kind) ==
    LET at == {j \in 1..Len(be) : be[j].kind = kind}
        nth(k) == CHOOSE j \in at : Cardinality({h \in at : h <= j}) = k
    IN [k \in 1..Cardinality(at) |-> be[nth(k)].id]

C30Ops == C2Ops \cup {"AddHeading", "AddPageBreak"}

\* C30: after add, insert and remove operations, Paragraphs() and Tables() are
\* the paragraphs and the tables of the body, once each and in body order, and
\* they show at every index what the lists of the reloaded document show there.
C30_TypedListsFollowBodyOrder ==
    lastDoc.ops \subseteq C30Ops =>
        /\ paragraphs = OfKind(bodyElements, "paragraph")
        /\ tables = OfKind(bodyElements, "table")
        /\ View(Reload(Part)).paragraphs = View(Part).paragraphs
        /\ View(Reload(Part)).tables = View(Part).tables

----------------------------------------------------------------------------
(* Claims about the release of the container, checked under SpecDoc *)

\* C23: every operation that is called on a document after Close has been
\* called on it returns an error.  (OpenDocument is not an operation on the
\* document: it makes a new one.)
C23_UseAfterCloseIsError ==
    [][(lastDoc.closed /\ lastDoc'.n = lastDoc.n + 1 /\ lastDoc'.op # "OpenDocument")
          => lastDoc'.err]_vars


----------------------------------------------------------------------------
(* Claims about the rows of a table, checked under SpecTbl *)

\* In SpecTbl the table is NewTable(r, c) and no call raises gridColumns: the
\* column count the table was created with is tbl.gridColumns.
CreatedColumns == tbl.gridColumns

RowSpans(cells) == SumSeq([j \in 1..Len(cells) |-> GridSpan(cells[j])])

\* C28: after any sequence of successful horizontal merges, row additions and
\* row insertions on a table created with c columns, every cell's grid span is
\* at least 1 and the grid spans of the cells of every row sum to c.
C28_RowSpansSumToColumns ==
    \A i \in 1..Len(tbl.rows) :
        /\ \A j \in 1..Len(tbl.rows[i]) : GridSpan(tbl.rows[i][j]) >= 1
        /\ RowSpans(tbl.rows[i]) = CreatedColumns


----------------------------------------------------------------------------
(* Claims about the archive that Package.SaveAs writes, checked under SpecRel *)

\* C21: at every save, each relationship whose mode is Internal has a target
\* that resolves, relative to its owning part, to a part of the container.
C21_InternalTargetsResolveAtSave ==
    archive # <<>> =>
        \A o \in DOMAIN archive[1].relations :
            \A i \in 1..Len(archive[1].relations[o]) :
                archive[1].relations[o][i].TargetMode # "External"
                    => resolveRelationshipTarget(o, archive[1].relations[o][i].Target)
                           \in archive[1].parts

\* C22: after creation or load and after any sequence of operations, every
\* content-type Override names a part of the container; in what SaveAs writes too.
C22_OverridesNameParts ==
    /\ \A name \in contentTypes : \E u \in parts : name = OverrideName(u)
    /\ archive # <<>> =>
          \A name \in archive[1].overrides : \E u \in archive[1].parts : name = OverrideName(u)


----------------------------------------------------------------------------
(* Headers and pictures: a document whose section can have a header, whose  *)
(* paragraphs can hold hyperlinks and pictures, and entities without owner  *)

IntBits == 4        \* the width of int in the model (64 in the build)
MaxHdrSteps == 3    \* calls on one document with headers and pictures

MaxInt == 2 ^ (IntBits - 1) - 1
MinInt == 0 - 2 ^ (IntBits - 1)

\* the value of an int expression: Go's signed integers wrap around
WrapInt(n) == ((n - MinInt) % (2 ^ IntBits)) + MinInt

\* DocumentPart.nextDrawingID: "dp.drawingCounter++; return dp.drawingCounter"
nextDrawingID(counter) == WrapInt(counter + 1)

\* parseDrawing, case "docPr": picture.docPrID after it; strconv.Atoi returns an
\* error for no digits and for a value that int does not hold
parseDocPrID(val) ==
    IF val # <<>> /\ AtoiOk(val) /\ AtoiVal(val) >= MinInt /\ AtoiVal(val) <= MaxInt
    THEN AtoiVal(val) ELSE 0

\* parseDrawing, its last statement: dp.drawingCounter after it
parseDrawingCounter(counter, docPrID) == IF docPrID > counter THEN docPrID ELSE counter

\* the Picture that addPictureFromFile and parseDrawing build
Picture(relID, target, docPrID) == [relID |-> relID, target |-> target, docPrID |-> docPrID]

\* "r.picture = picture"
WithPicture(run, picture) == MapSet(run, "picture", picture)

\* the state of the package and of the document part that the operations below
\* read and change
PkgState(rel, ps, counter) == [relations |-> rel, parts |-> ps, drawingCounter |-> counter]

HeaderURI == WordDir \o <<"h", "e", "a", "d", "e", "r", "1">> \o DotXML

\* DocumentPart.addPictureFromFile(path, w, h) on a part of a package, for
\* positive w and h; readable: os.ReadFile(path) returns no error.  addImagePart
\* stores the image as the part word/media/image1.png.
addPictureFromFile(st, readable) ==
    IF ~readable THEN [err |-> TRUE, st |-> st, picture |-> <<>>]
    ELSE LET r == ensureRelationship(st.relations, DocumentURI, RelTypeImage, ImageTarget)
             id == nextDrawingID(st.drawingCounter)
         IN [err |-> FALSE,
             st |-> PkgState(r.rel, st.parts \cup {WordDir \o ImageTarget}, id),
             picture |-> <<Picture(r.id, ImageTarget, id)>>]

\* Run.AddPicture(path, w, h); owner is r.owner: <<>> for nil
RunAddPicture(run, owner, st, readable) ==
    IF owner = <<>> THEN [err |-> TRUE, run |-> run, st |-> st]
    ELSE LET r == addPictureFromFile(st, readable) IN
         IF r.err THEN [err |-> TRUE, run |-> run, st |-> st]
         ELSE [err |-> FALSE, run |-> WithPicture(run, r.picture[1]), st |-> r.st]

\* A mutant of ParagraphAddPicture: the check of p.owner is missing and the run
\* stays in the paragraph when Run.AddPicture returns an error.
ParagraphAddPictureKeepsRun(p, owner, st, readable) ==
    LET r == RunAddPicture(NewRun(<<>>), owner, st, readable) IN
    IF r.err THEN [err |-> TRUE, p |-> [p EXCEPT !.runs = Append(@, r.run)], st |-> st]
    ELSE [err |-> FALSE, p |-> [p EXCEPT !.runs = Append(@, r.run)], st |-> r.st]

\* Paragraph.AddPicture(path, w, h); owner is p.owner, which AddRun gives to the
\* new run; the run is taken off again when Run.AddPicture returns an error
ParagraphAddPicture(p, owner, st, readable) ==
    IF owner = <<>> THEN [err |-> TRUE, p |-> p, st |-> st]
    ELSE LET r == RunAddPicture(NewRun(<<>>), owner, st, readable) IN
         IF r.err THEN [err |-> TRUE, p |-> [p EXCEPT !.runs = SubSeq(Append(@, r.run), 1, Len(@))],
                        st |-> st]
         ELSE [err |-> FALSE, p |-> [p EXCEPT !.runs = Append(@, r.run)], st |-> r.st]

\* Paragraph.AddHyperlink(text, url)
ParagraphAddHyperlink(p, text, url) ==
    [p EXCEPT !.runs = Append(@, SetHyperlink(NewRun(text), url))]

\* DocumentPart.createHeaderPart: the relationship from the document part to the
\* part that newHeaderPart has put into the package
createHeaderPart(st) ==
    LET r == ensureRelationship(st.relations, DocumentURI, RelTypeHeader, PathBase(HeaderURI))
    IN [st |-> PkgState(r.rel, st.parts \cup {HeaderURI}, st.drawingCounter), relID |-> r.id]

\* Section.headerOfType(HeaderTypeDefault); owner is s.owner: <<>> for nil.
\* created: a header part was made, for which newHeader builds the Header.
headerOfType(s, owner, st) ==
    IF HeaderTypeDefault \in DOMAIN s.headerRefs
    THEN [err |-> FALSE, s |-> s, st |-> st, created |-> FALSE]
    ELSE IF owner = <<>> THEN [err |-> TRUE, s |-> s, st |-> st, created |-> FALSE]
    ELSE LET r == createHeaderPart(st) IN
         [err |-> FALSE, st |-> r.st, created |-> TRUE,
          s |-> [s EXCEPT !.headerRefs = MapSet(@, HeaderTypeDefault, r.relID)]]

\* the relationship lists after the calls of ensureHyperlinkRelationship that
\* Run.wrapWithHyperlink makes while the paragraphs ps are serialized
RECURSIVE ensureHyperlinksOfRuns(_, _)
ensureHyperlinksOfRuns(rel, runs) ==
    IF runs = <<>> THEN rel
    ELSE ensureHyperlinksOfRuns(
             IF Head(runs).hyperlinkURL # <<>>
             THEN ensureRelationshipWithMode(rel, DocumentURI, RelTypeHyperlink,
                                             Head(runs).hyperlinkURL, "External").rel
             ELSE rel,
             Tail(runs))

RECURSIVE ensureHyperlinks(_, _)
ensureHyperlinks(rel, ps) ==
    IF ps = <<>> THEN rel
    ELSE ensureHyperlinks(ensureHyperlinksOfRuns(rel, Head(ps).runs), Tail(ps))

\* DocumentPart.updateXMLData for the paragraphs and the section of this
\* document: the bytes, with the relationship IDs of the state
BodyToXML ==
    updateXMLData([bodyElements |-> [j \in 1..Len(docBody) |-> [kind |-> "paragraph", id |-> j]],
                   paragraphs |-> docBody, tables |-> <<>>, sections |-> <<docSection>>])

\* Header.updateXMLData: the bytes, with the relationship IDs of the state
HeaderToXML ==
    Element("hdr", <<>>,
        ConcatAll([j \in 1..Len(hdrTree[1].paragraphs) |-> ParagraphToXML(hdrTree[1].paragraphs[j])]))


HdrTexts == {<<"a">>}

\* the docPr id attributes of the drawings of the files that are opened, one
\* drawing to a paragraph: an ascending pair, a descending pair, one that is no
\* number, and the greatest int
LoadedDocPrIDs ==
    { <<<<"1">>, <<"2">>>>, <<<<"3">>, <<"1">>>>, <<<<"x">>>>, <<Itoa(MaxInt)>> }

\* the section of the document that NewDocument builds
NewDocumentSection == loadFromXML(DefaultDocumentXML).sections[1]

\* parseParagraph of "<w:p><w:r><w:drawing>..id.."r:embed=relID"..</w:drawing></w:r></w:p>"
\* in a part whose relationship relID has the target ImageTarget
ParsedPictureParagraph(val, relID) ==
    [NewParagraph EXCEPT !.runs =
        <<WithPicture(NewRun(<<>>), Picture(relID, ImageTarget, parseDocPrID(val)))>>]

\* dp.drawingCounter after loadFromXML has parsed drawings with the ids vals
RECURSIVE LoadedDrawingCounter(_, _)
LoadedDrawingCounter(counter, vals) ==
    IF vals = <<>> THEN counter
    ELSE LoadedDrawingCounter(parseDrawingCounter(counter, parseDocPrID(Head(vals))),
                              Tail(vals))

\* the run, the paragraph and the section that NewRun, NewParagraph and
\* NewSection return, which no document part owns
LooseEntities == [r |-> NewRun(<<"a">>), p |-> NewParagraph,
                  s |-> NewSection(SectionStartContinuous)]

\* NewDocument; or OpenDocument of a file that this library wrote after
\* HeaderOfType and Header.AddParagraph("a"); or OpenDocument of a file with
\* drawings that all show word/media/image1.png
InitHdr ==
    /\ IdleDoc /\ IdleTbl
    /\ everIDs = <<>> /\ lastEnsure = NoEnsure /\ docPart = <<>>
    /\ contentTypes = {} /\ archive = <<>>
    /\ \/ /\ relations = DefaultRelations /\ parts = DefaultParts
          /\ docBody = <<>> /\ docSection = NewDocumentSection
          /\ hdrTree = <<>> /\ hdrData = <<>> /\ drawingCounter = 0
       \/ \E h \in {headerOfType(NewDocumentSection, <<DocumentURI>>,
                                 PkgState(DefaultRelations, DefaultParts, 0))} :
             /\ relations = h.st.relations /\ parts = h.st.parts
             /\ docBody = <<>> /\ docSection = h.s
             /\ hdrTree = <<[uri |-> HeaderURI,
                             paragraphs |-> <<parseParagraph(
                                 Decode(ParagraphToXML(AddRuns(NewParagraph, <<<<"a">>>>))),
                                 2).v>>]>>
             /\ hdrData = HeaderToXML
             /\ drawingCounter = 0
       \/ \E vals \in LoadedDocPrIDs :
          \E r \in {ensureRelationship(DefaultRelations, DocumentURI, RelTypeImage,
                                       ImageTarget)} :
             /\ relations = r.rel /\ parts = DefaultParts \cup {WordDir \o ImageTarget}
             /\ docBody = [j \in 1..Len(vals) |-> ParsedPictureParagraph(vals[j], r.id)]
             /\ docSection = NewDocumentSection
             /\ hdrTree = <<>> /\ hdrData = <<>>
             /\ drawingCounter = LoadedDrawingCounter(0, vals)
    /\ loose = LooseEntities
    /\ saved = <<>>
    /\ lastHdr = NoHdrOp

\* what a call returned: op, whether it returned an error, and the drawing ID
\* of the picture it made (0 when it made none)
HdrReturn(op, err, id) ==
    /\ lastHdr.n < MaxHdrSteps
    /\ lastHdr' = [op |-> op, err |-> err, id |-> id, n |-> lastHdr.n + 1]

Package == PkgState(relations, parts, drawingCounter)

\* the package and the counter are as st says
SetPackage(st) ==
    /\ relations' = st.relations /\ parts' = st.parts
    /\ drawingCounter' = st.drawingCounter

\* the paragraphs that the document part owns: those of the body and of the header
Attached ==
    {<<"body", j>> : j \in 1..Len(docBody)}
        \cup (IF hdrTree = <<>> THEN {}
              ELSE {<<"hdr", j>> : j \in 1..Len(hdrTree[1].paragraphs)})

ParagraphAt(w) == IF w[1] = "body" THEN docBody[w[2]] ELSE hdrTree[1].paragraphs[w[2]]

\* the paragraph at w is p now; no bytes are written
PutParagraph(w, p) ==
    IF w[1] = "body"
    THEN docBody' = [docBody EXCEPT ![w[2]] = p] /\ UNCHANGED hdrTree
    ELSE hdrTree' = <<[hdrTree[1] EXCEPT !.paragraphs[w[2]] = p]>> /\ UNCHANGED docBody

\* Document.AddParagraph(text): DocumentPart.AddParagraph, which ends in
\* updateXMLData
DoDocAddParagraph ==
    \E text \in HdrTexts :
        /\ HdrReturn("AddParagraph", FALSE, 0)
        /\ docBody' = Append(docBody, AddRuns(NewParagraph, <<text>>))
        /\ relations' = ensureHyperlinks(relations, docBody')
        /\ UNCHANGED <<parts, drawingCounter, docSection, hdrTree, hdrData, loose, saved>>
        /\ UNCHANGED <<docVars, tblVars, everIDs, lastEnsure, docPart, contentTypes, archive>>

\* Document.AddPicture(path, w, h)
DoDocAddPicture ==
    \E readable \in BOOLEAN : \E r \in {addPictureFromFile(Package, readable)} :
        /\ HdrReturn("AddPicture", r.err, IF r.err THEN 0 ELSE r.picture[1].docPrID)
        /\ parts' = r.st.parts /\ drawingCounter' = r.st.drawingCounter
        /\ IF r.err THEN UNCHANGED <<docBody, relations>>
           ELSE /\ docBody' = Append(docBody,
                       [NewParagraph EXCEPT !.runs =
                           <<WithPicture(NewRun(<<>>), r.picture[1])>>])
                /\ relations' = ensureHyperlinks(r.st.relations, docBody')
        /\ UNCHANGED <<docSection, hdrTree, hdrData, loose, saved>>
        /\ UNCHANGED <<docVars, tblVars, everIDs, lastEnsure, docPart, contentTypes, archive>>

\* Section.HeaderOfType(HeaderTypeDefault) on the section of the document
DoHeaderOfType ==
    \E r \in {headerOfType(docSection, <<DocumentURI>>, Package)} :
        /\ HdrReturn("HeaderOfType", r.err, 0)
        /\ docSection' = r.s
        /\ parts' = r.st.parts /\ drawingCounter' = r.st.drawingCounter
        /\ IF r.created
           THEN /\ hdrTree' = <<[uri |-> HeaderURI, paragraphs |-> <<>>]>>
                /\ relations' = ensureHyperlinks(r.st.relations, docBody)
                /\ hdrData' = HeaderToXML'
           ELSE UNCHANGED <<hdrTree, hdrData, relations>>
        /\ UNCHANGED <<docBody, loose, saved>>
        /\ UNCHANGED <<docVars, tblVars, everIDs, lastEnsure, docPart, contentTypes, archive>>

\* Header.AddParagraph(text), which ends in Header.updateXMLData
DoHeaderAddParagraph ==
    \E text \in HdrTexts :
        /\ hdrTree # <<>>
        /\ HdrReturn("Header.AddParagraph", FALSE, 0)
        /\ hdrTree' = <<[hdrTree[1] EXCEPT !.paragraphs =
                            Append(@, AddRuns(NewParagraph, <<text>>))]>>
        /\ relations' = ensureHyperlinks(relations, hdrTree'[1].paragraphs)
        /\ hdrData' = HeaderToXML'
        /\ UNCHANGED <<parts, drawingCounter, docBody, docSection, loose, saved>>
        /\ UNCHANGED <<docVars, tblVars, everIDs, lastEnsure, docPart, contentTypes, archive>>

\* Paragraph.AddRun(text) on a paragraph of the body or of the header
DoParagraphAddRun ==
    \E w \in Attached, text \in HdrTexts :
        /\ HdrReturn("Paragraph.AddRun", FALSE, 0)
        /\ PutParagraph(w, ParagraphAddRun(ParagraphAt(w), text))
        /\ UNCHANGED <<relations, parts, drawingCounter, docSection, hdrData, loose, saved>>
        /\ UNCHANGED <<docVars, tblVars, everIDs, lastEnsure, docPart, contentTypes, archive>>

\* Paragraph.AddHyperlink(text, url) on a paragraph of the body or of the header
DoParagraphAddHyperlink ==
    \E w \in Attached, text \in HdrTexts, url \in Urls :
        /\ HdrReturn("Paragraph.AddHyperlink", FALSE, 0)
        /\ PutParagraph(w, ParagraphAddHyperlink(ParagraphAt(w), text, url))
        /\ UNCHANGED <<relations, parts, drawingCounter, docSection, hdrData, loose, saved>>
        /\ UNCHANGED <<docVars, tblVars, everIDs, lastEnsure, docPart, contentTypes, archive>>

\* Paragraph.AddPicture(path, w, h) on a paragraph of the body or of the header:
\* its owner is the document part
DoParagraphAddPicture ==
    \E w \in Attached, readable \in BOOLEAN :
    \E r \in {ParagraphAddPicture(ParagraphAt(w), <<DocumentURI>>, Package, readable)} :
        /\ HdrReturn("Paragraph.AddPicture", r.err,
                     IF r.err THEN 0 ELSE r.p.runs[Len(r.p.runs)].picture.docPrID)
        /\ PutParagraph(w, r.p)
        /\ SetPackage(r.st)
        /\ UNCHANGED <<docSection, hdrData, loose, saved>>
        /\ UNCHANGED <<docVars, tblVars, everIDs, lastEnsure, docPart, contentTypes, archive>>

\* Run.AddPicture(path, w, h) on the run that has no owner
DoLooseRunAddPicture ==
    \E readable \in BOOLEAN : \E r \in {RunAddPicture(loose.r, <<>>, Package, readable)} :
        /\ HdrReturn("loose Run.AddPicture", r.err, 0)
        /\ loose' = [loose EXCEPT !.r = r.run]
        /\ SetPackage(r.st)
        /\ UNCHANGED <<docBody, docSection, hdrTree, hdrData, saved>>
        /\ UNCHANGED <<docVars, tblVars, everIDs, lastEnsure, docPart, contentTypes, archive>>

\* Paragraph.AddPicture(path, w, h) on the paragraph that has no owner
DoLooseParagraphAddPicture ==
    \E readable \in BOOLEAN :
    \E r \in {ParagraphAddPicture(loose.p, <<>>, Package, readable)} :
        /\ HdrReturn("loose Paragraph.AddPicture", r.err, 0)
        /\ loose' = [loose EXCEPT !.p = r.p]
        /\ SetPackage(r.st)
        /\ UNCHANGED <<docBody, docSection, hdrTree, hdrData, saved>>
        /\ UNCHANGED <<docVars, tblVars, everIDs, lastEnsure, docPart, contentTypes, archive>>

\* Section.HeaderOfType(HeaderTypeDefault) on the section that has no owner
DoLooseHeaderOfType ==
    \E r \in {headerOfType(loose.s, <<>>, Package)} :
        /\ HdrReturn("loose HeaderOfType", r.err, 0)
        /\ loose' = [loose EXCEPT !.s = r.s]
        /\ SetPackage(r.st)
        /\ UNCHANGED <<docBody, docSection, hdrTree, hdrData, saved>>
        /\ UNCHANGED <<docVars, tblVars, everIDs, lastEnsure, docPart, contentTypes, archive>>

\* Document.SaveAs(path): docPart.updateXMLData(), then Package.SaveAs writes
\* the Data of every part and every relationship list
DoDocSaveAs ==
    /\ HdrReturn("SaveAs", FALSE, 0)
    /\ relations' = ensureHyperlinks(relations, docBody)
    /\ UNCHANGED <<parts, drawingCounter, docBody, docSection, hdrTree, hdrData, loose>>
    /\ saved' = <<[doc |-> BodyToXML',
                   hdr |-> IF hdrTree = <<>> THEN <<>> ELSE <<hdrData>>,
                   relations |-> relations', parts |-> parts]>>
    /\ UNCHANGED <<docVars, tblVars, everIDs, lastEnsure, docPart, contentTypes, archive>>

NextHdr ==
    \/ DoDocAddParagraph
    \/ DoDocAddPicture
    \/ DoHeaderOfType
    \/ DoHeaderAddParagraph
    \/ DoParagraphAddRun
    \/ DoParagraphAddHyperlink
    \/ DoParagraphAddPicture
    \/ DoLooseRunAddPicture
    \/ DoLooseParagraphAddPicture
    \/ DoLooseHeaderOfType
    \/ DoDocSaveAs

SpecHdr == InitHdr /\ [][NextHdr]_vars


----------------------------------------------------------------------------
(* Claims about drawing IDs, owners, header bytes and relationship IDs,     *)
(* checked under SpecHdr                                                    *)

\* the pictures on the runs of the paragraphs ps
PicturesOf(ps) ==
    UNION {{ps[i].runs[j].picture :
               j \in {k \in 1..Len(ps[i].runs) : "picture" \in DOMAIN ps[i].runs[k]}} :
           i \in 1..Len(ps)}

\* the pictures that the document part has parsed or made
AllPictures ==
    PicturesOf(docBody) \cup (IF hdrTree = <<>> THEN {} ELSE PicturesOf(hdrTree[1].paragraphs))

\* a call has made a picture and returned its drawing ID in lastHdr'.id
PictureMade ==
    /\ lastHdr'.n = lastHdr.n + 1 /\ ~lastHdr'.err
    /\ lastHdr'.op \in {"AddPicture", "Paragraph.AddPicture"}

\* C24: the drawing counter of the part only increases, and the drawing ID of
\* every new picture is greater than every drawing ID parsed from the part or
\* handed out before.
C24_DrawingIDsIncrease ==
    [][/\ drawingCounter' >= drawingCounter
       /\ PictureMade => \A p \in AllPictures : lastHdr'.id > p.docPrID]_vars


LooseOps == {"loose Run.AddPicture", "loose Paragraph.AddPicture", "loose HeaderOfType"}

C27_SavedBytesAreCurrentTrees ==
    (lastHdr.op = "SaveAs" /\ saved # <<>>) =>
        /\ saved[1].doc = BodyToXML
        /\ hdrTree # <<>> => saved[1].hdr = <<HeaderToXML>>


\* the relationship IDs written in the bytes toks: r:id of a hyperlink or of a
\* header or footer reference, r:embed of a picture
RelIDsIn(toks) ==
    {attrValue(toks[i].a, "id") :
        i \in {k \in 1..Len(toks) :
                  /\ toks[k].k = "S"
                  /\ toks[k].n \in {"hyperlink", "headerReference", "footerReference"}
                  /\ attrValue(toks[k].a, "id") # <<>>}}
    \cup {attrValue(toks[i].a, "embed") :
            i \in {k \in 1..Len(toks) : toks[k].k = "S" /\ toks[k].n = "blip"}}

\* the relationship list that SaveAs wrote for the part uri
SavedRels(uri) ==
    IF uri \in DOMAIN saved[1].relations THEN saved[1].relations[uri] ELSE <<>>

\* the list rels has a relationship with this ID, target and mode
HasRel(rels, id, target, external) ==
    \E i \in 1..Len(rels) :
        /\ rels[i].ID = id /\ rels[i].Target = target
        /\ (rels[i].TargetMode = "External") = external

\* what the runs of the paragraphs ps refer to: <<ID, target, external>>
RefsOf(ps) ==
    {<<p.relID, p.target, FALSE>> : p \in PicturesOf(ps)}
    \cup UNION {{<<ensureRelationshipWithMode(relations, DocumentURI, RelTypeHyperlink,
                                              ps[i].runs[j].hyperlinkURL, "External").id,
                   ps[i].runs[j].hyperlinkURL, TRUE>> :
                    j \in {k \in 1..Len(ps[i].runs) : ps[i].runs[k].hyperlinkURL # <<>>}} :
                i \in 1..Len(ps)}

\* the relationship IDs in the bytes toks that SaveAs wrote for the part uri,
\* whose tree has the paragraphs ps, are IDs of the part's own list, with the
\* targets and modes of the tree
OwnRelIDs(toks, uri, ps) ==
    /\ RelIDsIn(toks) \subseteq IDsOf(SavedRels(uri))
    /\ \A ref \in RefsOf(ps) :
          ref[1] \in RelIDsIn(toks) => HasRel(SavedRels(uri), ref[1], ref[2], ref[3])

\* C29: at save, every relationship ID written in a part's XML is the ID of a
\* relationship of that part's own list, whose target and mode are those the
\* tree holds.
C29_WrittenRelIDsAreOwn ==
    (lastHdr.op = "SaveAs" /\ saved # <<>>) =>
        /\ OwnRelIDs(saved[1].doc, DocumentURI, docBody)
        /\ saved[1].hdr # <<>> => OwnRelIDs(saved[1].hdr[1], HeaderURI, hdrTree[1].paragraphs)
============================================================================
